---------------------------- MODULE Spec2Model ----------------------------
(***************************************************************************)
(* Agent lifecycle and cross-tab synchronisation of the agent starter:     *)
(*   - AgentManager (server/services/agent_manager.ts)                     *)
(*   - sync connection registry and broadcaster (sync_service.ts)          *)
(*   - chat routes (server/routes/chats.ts) and main.ts routes             *)
(*   - the per-tab chat store (frontend-lib store) and App.tsx handlers    *)
(*                                                                         *)
(* Several specifications share the variables below; each one drives the   *)
(* part of the state it is about and leaves the rest at its initial value. *)
(***************************************************************************)
EXTENDS Integers, Sequences, FiniteSets, TLC

(***************************************************************************)
(* Universes and bounds                                                    *)
(***************************************************************************)
Chats == {"c1", "c2"}
Sessions == {"s1", "s2"}
Calls == {"k1", "k2"}
Tabs == {"t1", "t2"}
MsgIds == {"m1", "m2"}
NoChat == "none"
NoConn == 0
NoAgent == 0

\* agents the createAgentFn can construct in one run
MaxAgents == 2
\* connection ids the registry hands out in one run
MaxConns == 2
\* frames a socket holds that its tab has not read yet
MaxQueue == 1
\* the clock stops here
MaxTime == 2
\* user gestures (new chat, chat click, submit, reload) in one behaviour
MaxGestures == 5
\* streaming deltas held by the buffers of one tab, over all chats
MaxDeltas == 3
\* messages shown in the message view
MaxShown == 3

AgentIds == 1..MaxAgents
ConnIds == 1..MaxConns

VARIABLES
  \* ---- AgentManager (agent_manager.ts) ----
  chatAgents,          \* chatId -> agent instance held by the cached entry (NoAgent: no entry)
  pendingDestruction,  \* set of chatIds
  taskHandlers,        \* chatId -> connectionId (NoConn: none)
  agentCount,          \* number of agents constructed so far (createAgentFn calls)
  agentChat,           \* agent instance -> chatId it was constructed for
  agentRunning,        \* set of agent instances whose isTaskRunning is true
  calls,               \* getOrCreateAgent invocations: call -> [pc, chatId, entry, over,
                       \* exclude, history, seed]
  lastCall,            \* history: last manager operation, its chatId, the entries it removed
  \* ---- sync connection registry and broadcaster (sync_service.ts) ----
  syncConnections,     \* sessionId -> set of connectionIds (only sessions that have a bucket)
  connectionCounter,   \* connectionIds handed out so far
  connSession,         \* connectionId -> session its socket was opened for
  wsState,             \* connectionId -> readyState of the server side socket
  wsOut,               \* connectionId -> frames sent on the socket, not yet read by the tab
  lastSend,            \* history: last registry operation (broadcast: session, event, exclude)
  \* ---- per-tab chat store (useChatStore) ----
  tabs,                \* tab -> store state
  now,                 \* the clock read by new Date()
  lastEvent,           \* history: last store operation of a tab, and whether it repeats the one before
  deltas,              \* history: chatId -> the deltas appended to its streaming buffer since it was last cleared
  render,              \* the message view of App.tsx: [messages: the messages shown, groups: messageGroups]
  \* ---- the tabs (App.tsx, ZypherApiClient) and the chat database ----
  client,              \* tab -> [connectionId: apiClient.connectionId, sock: its sync socket, checked,
                       \*         connectionRef: chat of the task channel in connectionRef.current,
                       \*         pendingRef: message id in pendingUserMessageRef.current]
  flows,               \* tab -> chatId -> [pc, agent]: handleSubmit / handleTaskEvents in progress
  storage,             \* tab -> sessionStorage: pending message record per chat (message id), saved active chat
  dbChats,             \* chats table, in insertion order
  dbMessages,          \* messages table, in insertion order
  busySince,           \* history: tab -> chats whose task_started it applied and task_ended not yet
  awayTask,            \* history: tab -> chats it left while their task ran, and has not returned to
  returned,            \* history: tab -> chats it came back to while their task still ran, and still views
  creator,             \* history: chatId -> the tab whose request created it
  gestures,            \* user gestures made so far, over all tabs
  lastTab              \* history: last user or tab operation

mgrVars == <<chatAgents, pendingDestruction, taskHandlers, agentCount, agentChat,
             agentRunning, calls, lastCall>>

syncVars == <<syncConnections, connectionCounter, connSession, wsState, wsOut, lastSend>>

storeVars == <<tabs, now, lastEvent, deltas, render>>

appVars == <<client, flows, storage, dbChats, dbMessages, busySince, awayTask, returned,
             creator, gestures, lastTab>>

vars == <<mgrVars, syncVars, storeVars, appVars>>

(***************************************************************************)
(* AgentManager                                                            *)
(***************************************************************************)
\* The three collections of the manager as one value, for the helpers below.
Mgr == [chatAgents |-> chatAgents, pendingDestruction |-> pendingDestruction,
        taskHandlers |-> taskHandlers]

\* destroyAgent(chatId): three deletes
destroyAgentKeepsHandler(m, chatId) ==
  [chatAgents |-> [m.chatAgents EXCEPT ![chatId] = NoAgent],
   pendingDestruction |-> m.pendingDestruction \ {chatId},
   taskHandlers |-> m.taskHandlers]

destroyAgent(m, chatId) ==
  [chatAgents |-> [m.chatAgents EXCEPT ![chatId] = NoAgent],
   pendingDestruction |-> m.pendingDestruction \ {chatId},
   taskHandlers |-> [m.taskHandlers EXCEPT ![chatId] = NoConn]]

\* markForPendingDestruction(chatId): add the flag only if an entry exists
markForPendingDestructionNoCheck(m, chatId) ==
  [m EXCEPT !.pendingDestruction = @ \cup {chatId}]

markForPendingDestruction(m, chatId) ==
  IF m.chatAgents[chatId] # NoAgent
    THEN [m EXCEPT !.pendingDestruction = @ \cup {chatId}]
    ELSE m

\* cancelPendingDestruction(chatId)
cancelPendingDestruction(m, chatId) ==
  [m EXCEPT !.pendingDestruction = @ \ {chatId}]

\* entry.agent.isTaskRunning read by the sweep (a boolean of the agent instance)
isRunning(running, agent) == agent \in running

\* one iteration of the for-loop of cleanupPendingAgents
cleanupStepNoRunCheck(m, running, chatId) ==
  IF m.chatAgents[chatId] = NoAgent
    THEN [m EXCEPT !.pendingDestruction = @ \ {chatId}]
    ELSE destroyAgent([m EXCEPT !.pendingDestruction = @ \ {chatId}], chatId)

cleanupStep(m, running, chatId) ==
  IF m.chatAgents[chatId] = NoAgent
    THEN [m EXCEPT !.pendingDestruction = @ \ {chatId}]
    ELSE IF ~isRunning(running, m.chatAgents[chatId])
      THEN destroyAgent([m EXCEPT !.pendingDestruction = @ \ {chatId}], chatId)
      ELSE m

\* cleanupPendingAgents(): the loop over the pending set. A chatId deleted from
\* the set before it is visited is skipped, as JS Set iteration does.
RECURSIVE cleanupLoop(_, _, _)
cleanupLoop(m, running, todo) ==
  IF todo = {} THEN m
  ELSE LET chatId == CHOOSE c \in todo : TRUE
           m2 == IF chatId \in m.pendingDestruction
                   THEN cleanupStep(m, running, chatId) ELSE m
       IN cleanupLoop(m2, running, todo \ {chatId})

cleanupPendingAgentsFirstOnly(m, running) ==
  IF m.pendingDestruction = {} THEN m
  ELSE cleanupStep(m, running, CHOOSE c \in m.pendingDestruction : TRUE)

cleanupPendingAgents(m, running) == cleanupLoop(m, running, m.pendingDestruction)

\* registerTaskHandler / unregisterTaskHandler
registerTaskHandler(m, chatId, connectionId) ==
  [m EXCEPT !.taskHandlers[chatId] = connectionId]

unregisterTaskHandler(m, chatId) ==
  [m EXCEPT !.taskHandlers[chatId] = NoConn]

SetMgr(m) ==
  /\ chatAgents' = m.chatAgents
  /\ pendingDestruction' = m.pendingDestruction
  /\ taskHandlers' = m.taskHandlers

Ids(seq) == {seq[i].id : i \in 1..Len(seq)}

\* ChatService reads (w carries the tables dbChats and dbMessages); rows come
\* back in creation order, and a chat that is not there has no messages
getChat(w, chatId) == chatId \in Ids(w.dbChats)
getChatMessages(w, chatId) ==
  IF getChat(w, chatId)
    THEN SelectSeq(w.dbMessages, LAMBDA m : m.chatId = chatId)
    ELSE <<>>

\* excludeMessageId left undefined by the caller
NoExclude == "none"

IdleCall ==
  [pc |-> "idle", chatId |-> NoChat, entry |-> NoAgent, over |-> {},
   exclude |-> NoExclude, history |-> <<>>, seed |-> <<>>]

InFlight(k) == calls[k].pc \in {"fetch", "create"}

\* getOrCreateAgent, lines 62-71: cache lookup; on a miss the history is read and
\* the call suspends at the first await.
getOrCreateAgentBegin(k, chatId, excludeMessageId) ==
  /\ calls[k].pc = "idle"
  /\ LET over == {j \in Calls \ {k} : InFlight(j) /\ calls[j].chatId = chatId}
         chatMessages ==
           getChatMessages([dbChats |-> dbChats, dbMessages |-> dbMessages], chatId)
     IN IF chatAgents[chatId] # NoAgent
          THEN calls' = [calls EXCEPT ![k] = [IdleCall EXCEPT
                                             !.pc = "done", !.chatId = chatId,
                                             !.entry = chatAgents[chatId],
                                             !.over = over,
                                             !.exclude = excludeMessageId]]
          ELSE calls' = [calls EXCEPT ![k] = [IdleCall EXCEPT
                                             !.pc = "fetch", !.chatId = chatId,
                                             !.over = over,
                                             !.exclude = excludeMessageId,
                                             !.history = chatMessages]]
  /\ UNCHANGED <<chatAgents, pendingDestruction, taskHandlers, agentCount, agentChat,
                 agentRunning>>

\* lines 74-84: the seed history is built and createAgentFn is invoked; the call
\* suspends until the agent is ready. A row of the model has no content of its
\* own, so the Message made from a row is written as the row's id.
getOrCreateAgentConstructUnfiltered(k) ==
  /\ calls[k].pc = "fetch"
  /\ agentCount < MaxAgents
  /\ agentCount' = agentCount + 1
  /\ agentChat' = [agentChat EXCEPT ![agentCount + 1] = calls[k].chatId]
  /\ calls' = [calls EXCEPT ![k].pc = "create", ![k].entry = agentCount + 1,
                            ![k].seed = [i \in DOMAIN calls[k].history |->
                                           calls[k].history[i].id]]
  /\ UNCHANGED <<chatAgents, pendingDestruction, taskHandlers, agentRunning>>

getOrCreateAgentConstruct(k) ==
  /\ calls[k].pc = "fetch"
  /\ agentCount < MaxAgents
  /\ agentCount' = agentCount + 1
  /\ agentChat' = [agentChat EXCEPT ![agentCount + 1] = calls[k].chatId]
  /\ LET initialMessages ==
           SelectSeq(calls[k].history, LAMBDA msg : msg.id # calls[k].exclude)
     IN calls' = [calls EXCEPT ![k].pc = "create", ![k].entry = agentCount + 1,
                               ![k].seed = [i \in DOMAIN initialMessages |->
                                              initialMessages[i].id]]
  /\ UNCHANGED <<chatAgents, pendingDestruction, taskHandlers, agentRunning>>

\* lines 85-100: the entry is cached under chatId and returned.
getOrCreateAgentFinish(k) ==
  /\ calls[k].pc = "create"
  /\ chatAgents' = [chatAgents EXCEPT ![calls[k].chatId] = calls[k].entry]
  /\ calls' = [calls EXCEPT ![k].pc = "done"]
  /\ UNCHANGED <<pendingDestruction, taskHandlers, agentCount, agentChat, agentRunning>>

\* lines 68-84: getChatMessages or createAgentFn throws (or registerMcpServers
\* does); the promise of getOrCreateAgent rejects. No statement of the function
\* has written anything by then.
getOrCreateAgentThrowPoisoned(k) ==
  /\ InFlight(k)
  /\ calls' = [calls EXCEPT ![k].pc = "failed", ![k].entry = NoAgent]
  /\ pendingDestruction' = pendingDestruction \cup {calls[k].chatId}
  /\ UNCHANGED <<chatAgents, taskHandlers, agentCount, agentChat, agentRunning>>

getOrCreateAgentThrow(k) ==
  /\ InFlight(k)
  /\ calls' = [calls EXCEPT ![k].pc = "failed", ![k].entry = NoAgent]
  /\ UNCHANGED <<chatAgents, pendingDestruction, taskHandlers, agentCount, agentChat,
                 agentRunning>>

\* the caller has consumed the result or the error; the slot can carry another
\* invocation
callReturn(k) ==
  /\ calls[k].pc \in {"done", "failed"}
  /\ calls' = [j \in Calls |->
                 IF j = k THEN IdleCall
                 ELSE [calls[j] EXCEPT !.over = @ \ {k}]]
  /\ UNCHANGED <<chatAgents, pendingDestruction, taskHandlers, agentCount, agentChat,
                 agentRunning>>

\* The agent's task engine: a task starts on an agent some channel is bound to,
\* and ends. The agent instance keeps running after its entry is dropped.
agentTaskStart(a) ==
  /\ a \in 1..agentCount
  /\ a \notin agentRunning
  /\ \E c \in Chats : chatAgents[c] = a
  /\ agentRunning' = agentRunning \cup {a}
  /\ UNCHANGED <<chatAgents, pendingDestruction, taskHandlers, agentCount, agentChat, calls>>

agentTaskEnd(a) ==
  /\ a \in agentRunning
  /\ agentRunning' = agentRunning \ {a}
  /\ UNCHANGED <<chatAgents, pendingDestruction, taskHandlers, agentCount, agentChat, calls>>

\* ---- the manager driven directly (SpecMgr) ----
Note(op, chatId) ==
  lastCall' = [op |-> op, chatId |-> chatId,
               removed |-> {c \in Chats : chatAgents[c] # NoAgent /\ chatAgents'[c] = NoAgent}]

ManagerInit ==
  /\ chatAgents = [c \in Chats |-> NoAgent]
  /\ pendingDestruction = {}
  /\ taskHandlers = [c \in Chats |-> NoConn]
  /\ agentCount = 0
  /\ agentChat = [a \in AgentIds |-> NoChat]
  /\ agentRunning = {}
  /\ calls = [k \in Calls |-> IdleCall]
  /\ lastCall = [op |-> "init", chatId |-> NoChat, removed |-> {}]

MgrBegin == UNCHANGED <<syncVars, storeVars, appVars>> /\ \E k \in Calls, c \in Chats : getOrCreateAgentBegin(k, c, NoExclude) /\ Note("other", NoChat)
MgrConstruct == UNCHANGED <<syncVars, storeVars, appVars>> /\ \E k \in Calls : getOrCreateAgentConstruct(k) /\ Note("other", NoChat)
MgrFinish == UNCHANGED <<syncVars, storeVars, appVars>> /\ \E k \in Calls : getOrCreateAgentFinish(k) /\ Note("other", NoChat)
MgrReturn == UNCHANGED <<syncVars, storeVars, appVars>> /\ \E k \in Calls : callReturn(k) /\ Note("other", NoChat)
MgrTaskStart == UNCHANGED <<syncVars, storeVars, appVars>> /\ \E a \in AgentIds : agentTaskStart(a) /\ Note("other", NoChat)
MgrTaskEnd == UNCHANGED <<syncVars, storeVars, appVars>> /\ \E a \in AgentIds : agentTaskEnd(a) /\ Note("other", NoChat)

MgrDestroy ==
  UNCHANGED <<syncVars, storeVars, appVars>> /\ \E c \in Chats :
    /\ SetMgr(destroyAgent(Mgr, c))
    /\ Note("destroy", c)
    /\ UNCHANGED <<agentCount, agentChat, agentRunning, calls>>

MgrMark ==
  UNCHANGED <<syncVars, storeVars, appVars>> /\ \E c \in Chats :
    /\ SetMgr(markForPendingDestruction(Mgr, c))
    /\ Note("mark", c)
    /\ UNCHANGED <<agentCount, agentChat, agentRunning, calls>>

MgrCancelPending ==
  UNCHANGED <<syncVars, storeVars, appVars>> /\ \E c \in Chats :
    /\ SetMgr(cancelPendingDestruction(Mgr, c))
    /\ Note("other", NoChat)
    /\ UNCHANGED <<agentCount, agentChat, agentRunning, calls>>

MgrCleanup ==
  /\ UNCHANGED <<syncVars, storeVars, appVars>>
  /\ SetMgr(cleanupPendingAgents(Mgr, agentRunning))
  /\ Note("cleanup", NoChat)
  /\ UNCHANGED <<agentCount, agentChat, agentRunning, calls>>

MgrRegister ==
  UNCHANGED <<syncVars, storeVars, appVars>> /\ \E c \in Chats, conn \in {1} :
    /\ SetMgr(registerTaskHandler(Mgr, c, conn))
    /\ Note("other", NoChat)
    /\ UNCHANGED <<agentCount, agentChat, agentRunning, calls>>

MgrUnregister ==
  UNCHANGED <<syncVars, storeVars, appVars>> /\ \E c \in Chats :
    /\ SetMgr(unregisterTaskHandler(Mgr, c))
    /\ Note("other", NoChat)
    /\ UNCHANGED <<agentCount, agentChat, agentRunning, calls>>

MgrNext ==
  \/ MgrBegin \/ MgrConstruct \/ MgrFinish \/ MgrReturn
  \/ MgrTaskStart \/ MgrTaskEnd
  \/ MgrDestroy \/ MgrMark \/ MgrCancelPending \/ MgrCleanup
  \/ MgrRegister \/ MgrUnregister

(***************************************************************************)
(* Sync connection registry and broadcaster (sync_service.ts)              *)
(***************************************************************************)
SyncEvents ==
  [type : {"task_started", "task_ended"}, chatId : {"c1"}]

Connected(connectionId) == [type |-> "connected", connectionId |-> connectionId]

SyncInit ==
  /\ syncConnections = <<>>
  /\ connectionCounter = 0
  /\ connSession = [c \in ConnIds |-> "none"]
  /\ wsState = [c \in ConnIds |-> "none"]
  /\ wsOut = [c \in ConnIds |-> <<>>]
  /\ lastSend = [op |-> "init", sessionId |-> "none", event |-> "none", exclude |-> NoConn]

\* syncConnections.get(sessionId), undefined read as the empty bucket
Bucket(reg, sessionId) == IF sessionId \in DOMAIN reg THEN reg[sessionId] ELSE {}

\* registerSyncConnection: the bucket is created on first use
registerSyncConnection(reg, sessionId, connectionId) ==
  [s \in DOMAIN reg \cup {sessionId} |->
     IF s = sessionId THEN Bucket(reg, s) \cup {connectionId} ELSE reg[s]]

\* unregisterSyncConnection: an emptied bucket is deleted
unregisterSyncConnectionKeepsBucket(reg, sessionId, connectionId) ==
  IF sessionId \notin DOMAIN reg THEN reg
  ELSE [reg EXCEPT ![sessionId] = @ \ {connectionId}]

unregisterSyncConnection(reg, sessionId, connectionId) ==
  IF sessionId \notin DOMAIN reg THEN reg
  ELSE IF reg[sessionId] \ {connectionId} = {}
    THEN [s \in DOMAIN reg \ {sessionId} |-> reg[s]]
    ELSE [reg EXCEPT ![sessionId] = @ \ {connectionId}]

\* isConnectionActive
isConnectionActive(reg, state, sessionId, connectionId) ==
  /\ connectionId \in Bucket(reg, sessionId)
  /\ state[connectionId] = "open"

\* the connections one broadcastSyncEvent call sends to
broadcastTargetsNoSkip(reg, state, sessionId, excludeConnectionId) ==
  {c \in Bucket(reg, sessionId) : state[c] = "open"}

broadcastTargets(reg, state, sessionId, excludeConnectionId) ==
  {c \in Bucket(reg, sessionId) : c # excludeConnectionId /\ state[c] = "open"}

\* broadcastSyncEvent: one ws.send of the event per target
broadcastSyncEvent(out, reg, state, sessionId, event, excludeConnectionId) ==
  [c \in DOMAIN out |->
     IF c \in broadcastTargets(reg, state, sessionId, excludeConnectionId)
       THEN Append(out[c], event) ELSE out[c]]

\* room for one more frame on every socket the broadcast would send to
HasRoom(sessionId, excludeConnectionId) ==
  \A c \in broadcastTargets(syncConnections, wsState, sessionId, excludeConnectionId) :
    Len(wsOut[c]) < MaxQueue

NoteSend(op, sessionId, event, exclude) ==
  lastSend' = [op |-> op, sessionId |-> sessionId, event |-> event, exclude |-> exclude]

\* socket.onopen of /user-agent/sync/ws: register, then send the connected frame
openSocketNoFrame(sessionId) ==
  /\ connectionCounter < MaxConns
  /\ LET connectionId == connectionCounter + 1 IN
       /\ connectionCounter' = connectionId
       /\ syncConnections' = registerSyncConnection(syncConnections, sessionId, connectionId)
       /\ connSession' = [connSession EXCEPT ![connectionId] = sessionId]
       /\ wsState' = [wsState EXCEPT ![connectionId] = "open"]
       /\ wsOut' = wsOut

openSocket(sessionId) ==
  /\ connectionCounter < MaxConns
  /\ LET connectionId == connectionCounter + 1 IN
       /\ connectionCounter' = connectionId
       /\ syncConnections' = registerSyncConnection(syncConnections, sessionId, connectionId)
       /\ connSession' = [connSession EXCEPT ![connectionId] = sessionId]
       /\ wsState' = [wsState EXCEPT ![connectionId] = "open"]
       /\ wsOut' = [wsOut EXCEPT ![connectionId] = <<Connected(connectionId)>>]

SyncOpen(sessionId) ==
  /\ openSocket(sessionId)
  /\ NoteSend("open", sessionId, "none", NoConn)

\* the transport goes down; the close event has not been dispatched yet
SocketDown(connectionId) ==
  /\ wsState[connectionId] = "open"
  /\ wsState' = [wsState EXCEPT ![connectionId] = "closed"]
  /\ wsOut' = [wsOut EXCEPT ![connectionId] = <<>>]
  /\ NoteSend("down", connSession[connectionId], "none", NoConn)
  /\ UNCHANGED <<syncConnections, connectionCounter, connSession>>

\* socket.onclose of /user-agent/sync/ws
SyncClose(connectionId) ==
  /\ wsState[connectionId] = "closed"
  /\ connectionId \in Bucket(syncConnections, connSession[connectionId])
  /\ syncConnections' =
       unregisterSyncConnection(syncConnections, connSession[connectionId], connectionId)
  /\ NoteSend("close", connSession[connectionId], "none", NoConn)
  /\ UNCHANGED <<connectionCounter, connSession, wsState, wsOut>>

\* unregisterSyncConnection called with any session and connection id
Unregister(sessionId, connectionId) ==
  /\ syncConnections' = unregisterSyncConnection(syncConnections, sessionId, connectionId)
  /\ NoteSend("unregister", sessionId, "none", connectionId)
  /\ UNCHANGED <<connectionCounter, connSession, wsState, wsOut>>

\* a caller of broadcastSyncEvent; excludeConnectionId is whatever the request carried
Broadcast(sessionId, event, excludeConnectionId) ==
  /\ HasRoom(sessionId, excludeConnectionId)
  /\ wsOut' = broadcastSyncEvent(wsOut, syncConnections, wsState, sessionId, event,
                                 excludeConnectionId)
  /\ NoteSend("broadcast", sessionId, event, excludeConnectionId)
  /\ UNCHANGED <<syncConnections, connectionCounter, connSession, wsState>>

\* broadcastSyncEvent when ws.send throws on the connections in throwing: the
\* catch block logs, the loop goes on, the function returns normally. Without
\* the catch the first throw would end the loop (the Map is walked in insertion
\* order, the order of the ids) and reach the caller.
BroadcastThrowsNoCatch(sessionId, event, excludeConnectionId, throwing) ==
  LET targets == broadcastTargets(syncConnections, wsState, sessionId, excludeConnectionId)
      first == CHOOSE c \in throwing : \A d \in throwing : c <= d
  IN /\ throwing # {}
     /\ throwing \subseteq targets
     /\ HasRoom(sessionId, excludeConnectionId)
     /\ wsOut' = [c \in DOMAIN wsOut |->
                    IF c \in targets /\ c < first THEN Append(wsOut[c], event) ELSE wsOut[c]]
     /\ lastSend' = [op |-> "broadcast_throws", sessionId |-> sessionId, event |-> event,
                     exclude |-> excludeConnectionId, throwing |-> throwing,
                     error |-> TRUE]
     /\ UNCHANGED <<syncConnections, connectionCounter, connSession, wsState>>

BroadcastThrows(sessionId, event, excludeConnectionId, throwing) ==
  LET targets == broadcastTargets(syncConnections, wsState, sessionId, excludeConnectionId)
  IN /\ throwing # {}
     /\ throwing \subseteq targets
     /\ HasRoom(sessionId, excludeConnectionId)
     /\ wsOut' = [c \in DOMAIN wsOut |->
                    IF c \in targets \ throwing THEN Append(wsOut[c], event) ELSE wsOut[c]]
     /\ lastSend' = [op |-> "broadcast_throws", sessionId |-> sessionId, event |-> event,
                     exclude |-> excludeConnectionId, throwing |-> throwing,
                     error |-> FALSE]
     /\ UNCHANGED <<syncConnections, connectionCounter, connSession, wsState>>

\* the tab reads the next frame of its socket
SyncRead(connectionId) ==
  /\ wsOut[connectionId] # <<>>
  /\ wsOut' = [wsOut EXCEPT ![connectionId] = Tail(@)]
  /\ NoteSend("read", connSession[connectionId], "none", NoConn)
  /\ UNCHANGED <<syncConnections, connectionCounter, connSession, wsState>>


(***************************************************************************)
(* The per-tab chat store (useChatStore) and its sync-event merge          *)
(***************************************************************************)
EmptyStore ==
  [chats |-> <<>>, activeChatId |-> NoChat, messages |-> <<>>,
   streamingMessages |-> [c \in Chats |-> <<>>],
   runningTaskChatIds |-> {}, busyChats |-> {}]

ChatOf(id, updatedAt) == [id |-> id, updatedAt |-> updatedAt]

Count(seq, id) == Cardinality({i \in 1..Len(seq) : seq[i].id = id})

\* Array.prototype.sort with (a, b) => time(b.updatedAt) - time(a.updatedAt):
\* a stable sort, newest first
RECURSIVE InsertDesc(_, _)
InsertDesc(sorted, x) ==
  IF sorted = <<>> THEN <<x>>
  ELSE IF Head(sorted).updatedAt >= x.updatedAt
    THEN <<Head(sorted)>> \o InsertDesc(Tail(sorted), x)
    ELSE <<x>> \o sorted

RECURSIVE SortDescFrom(_, _)
SortDescFrom(sorted, rest) ==
  IF rest = <<>> THEN sorted
  ELSE SortDescFrom(InsertDesc(sorted, Head(rest)), Tail(rest))

SortDesc(seq) == SortDescFrom(<<>>, seq)

SortedDesc(seq) ==
  \A i \in 1..(Len(seq) - 1) : seq[i].updatedAt >= seq[i + 1].updatedAt

\* state.chats.map(c => c.id === id ? f(c) : c)
MapChat(seq, id, new) == [i \in 1..Len(seq) |-> IF seq[i].id = id THEN new ELSE seq[i]]
Touch(seq, id, t) ==
  [i \in 1..Len(seq) |-> IF seq[i].id = id THEN [seq[i] EXCEPT !.updatedAt = t] ELSE seq[i]]

\* transformMessage: ChatMessage -> CompleteMessage, the id is kept
transformMessage(msg) == [id |-> msg.id]

\* handleSyncEvent, case "chat_created"
handleChatCreated(st, event) ==
  IF event.chat.id \in Ids(st.chats) THEN st
  ELSE [st EXCEPT !.chats = <<event.chat>> \o @]

\* handleSyncEvent, case "chat_updated"
handleChatUpdated(st, event) ==
  [st EXCEPT !.chats = SortDesc(MapChat(@, event.chat.id, event.chat))]

\* handleSyncEvent, case "chat_deleted"
handleChatDeletedKeepsStream(st, event) ==
  [st EXCEPT
     !.chats = SelectSeq(@, LAMBDA c : c.id # event.chatId),
     !.activeChatId = IF st.activeChatId = event.chatId THEN NoChat ELSE @,
     !.messages = IF st.activeChatId = event.chatId THEN <<>> ELSE @]

handleChatDeleted(st, event) ==
  [st EXCEPT
     !.chats = SelectSeq(@, LAMBDA c : c.id # event.chatId),
     !.activeChatId = IF st.activeChatId = event.chatId THEN NoChat ELSE @,
     !.messages = IF st.activeChatId = event.chatId THEN <<>> ELSE @,
     !.streamingMessages = [@ EXCEPT ![event.chatId] = <<>>]]

\* handleSyncEvent, case "message_added"
handleMessageAddedNoDedup(st, event, t) ==
  LET updatedChats == SortDesc(Touch(st.chats, event.chatId, t)) IN
    IF st.activeChatId # event.chatId
      THEN [st EXCEPT !.chats = updatedChats]
      ELSE [st EXCEPT !.chats = updatedChats,
                      !.messages = Append(@, transformMessage(event.message))]

handleMessageAdded(st, event, t) ==
  LET updatedChats == SortDesc(Touch(st.chats, event.chatId, t)) IN
    IF st.activeChatId # event.chatId
      THEN [st EXCEPT !.chats = updatedChats]
    ELSE IF event.message.id \in Ids(st.messages)
      THEN [st EXCEPT !.chats = updatedChats]
    ELSE [st EXCEPT !.chats = updatedChats,
                    !.messages = Append(@, transformMessage(event.message))]

\* handleSyncEvent, case "message_deleted"
handleMessageDeleted(st, event) ==
  IF st.activeChatId # event.chatId THEN st
  ELSE [st EXCEPT !.messages = SelectSeq(@, LAMBDA m : m.id # event.messageId)]

\* handleSyncEvent, case "task_started"
handleTaskStarted(st, event) ==
  [st EXCEPT !.busyChats = @ \cup {event.chatId}]

\* handleSyncEvent, case "task_ended"
handleTaskEndedKeepsStream(st, event) ==
  [st EXCEPT !.busyChats = @ \ {event.chatId}]

handleTaskEnded(st, event) ==
  [st EXCEPT !.busyChats = @ \ {event.chatId},
             !.streamingMessages = [@ EXCEPT ![event.chatId] = <<>>]]

\* handleSyncEvent: the switch on event.type; any other type falls through
handleSyncEvent(st, event, t) ==
  CASE event.type = "chat_created" -> handleChatCreated(st, event)
    [] event.type = "chat_updated" -> handleChatUpdated(st, event)
    [] event.type = "chat_deleted" -> handleChatDeleted(st, event)
    [] event.type = "message_added" -> handleMessageAdded(st, event, t)
    [] event.type = "message_deleted" -> handleMessageDeleted(st, event)
    [] event.type = "task_started" -> handleTaskStarted(st, event)
    [] event.type = "task_ended" -> handleTaskEnded(st, event)
    [] OTHER -> st

\* appendStreamingText: a text delta joins a last entry of type streaming_text,
\* otherwise it opens a new entry (strings are sequences of characters)
appendStreamingText(st, chatId, text) ==
  LET chatStreaming == st.streamingMessages[chatId]
      n == Len(chatStreaming)
  IN IF n > 0 /\ chatStreaming[n].type = "streaming_text"
       THEN [st EXCEPT !.streamingMessages[chatId][n].text = @ \o text]
       ELSE [st EXCEPT !.streamingMessages[chatId] =
                         Append(@, [type |-> "streaming_text", text |-> text])]

\* appendStreamingToolUse: a tool delta joins a last entry of type
\* streaming_tool_use with the same tool name, otherwise it opens a new entry
appendStreamingToolUseAnyTool(st, chatId, toolName, partialInput) ==
  LET chatStreaming == st.streamingMessages[chatId]
      n == Len(chatStreaming)
  IN IF n > 0 /\ chatStreaming[n].type = "streaming_tool_use"
       THEN [st EXCEPT !.streamingMessages[chatId][n].partialInput = @ \o partialInput]
       ELSE [st EXCEPT !.streamingMessages[chatId] =
                         Append(@, [type |-> "streaming_tool_use", toolUseName |-> toolName,
                                    partialInput |-> partialInput])]

appendStreamingToolUse(st, chatId, toolName, partialInput) ==
  LET chatStreaming == st.streamingMessages[chatId]
      n == Len(chatStreaming)
  IN IF /\ n > 0
        /\ chatStreaming[n].type = "streaming_tool_use"
        /\ chatStreaming[n].toolUseName = toolName
       THEN [st EXCEPT !.streamingMessages[chatId][n].partialInput = @ \o partialInput]
       ELSE [st EXCEPT !.streamingMessages[chatId] =
                         Append(@, [type |-> "streaming_tool_use", toolUseName |-> toolName,
                                    partialInput |-> partialInput])]

\* createChat, the set() after the response: prepend unless already listed
createChatDone(st, chat) ==
  IF chat.id \in Ids(st.chats) THEN st
  ELSE [st EXCEPT !.chats = <<chat>> \o @]

\* renameChat, the optimistic set(): new timestamp, then sort
renameChat(st, chatId, t) ==
  [st EXCEPT !.chats = SortDesc(Touch(@, chatId, t))]

\* persistMessage, the set() after the response: new timestamp, then sort
persistMessageDone(st, chatId, t) ==
  [st EXCEPT !.chats = SortDesc(Touch(@, chatId, t))]

\* fetchChats, the set() after the response: the list as the server returned it
fetchChatsDone(st, list) == [st EXCEPT !.chats = list]

NoEvent == [type |-> "none"]

\* create<ChatState>: the store of a tab that has just loaded
StoreInit ==
  /\ tabs = [t \in Tabs |-> EmptyStore]
  /\ now = 0
  /\ lastEvent = [op |-> "none", event |-> NoEvent, twice |-> FALSE]
  /\ deltas = [c \in Chats |-> <<>>]
  /\ render = [messages |-> <<>>, groups |-> <<>>]


(***************************************************************************)
(* The tabs (App.tsx, ZypherApiClient), the chat routes and the database   *)
(***************************************************************************)
\* all tabs share one browser, hence one session id
TabSession == "s1"

\* the ZypherApiClient and the refs of an App that has just mounted
NewClient(sock, checked) ==
  [connectionId |-> sock, sock |-> sock, checked |-> checked,
   connectionRef |-> NoChat, pendingRef |-> "none"]

\* sessionStorage of a new tab
NewStorage == [pending |-> [c \in Chats |-> "none"], activeChatId |-> NoChat]

IdleFlow == [pc |-> "idle", agent |-> NoAgent]

AppInit ==
  /\ client = [t \in Tabs |-> NewClient(NoConn, TRUE)]
  /\ flows = [t \in Tabs |-> [c \in Chats |-> IdleFlow]]
  /\ storage = [t \in Tabs |-> NewStorage]
  /\ dbChats = <<>>
  /\ dbMessages = <<>>
  /\ busySince = [t \in Tabs |-> {}]
  /\ awayTask = [t \in Tabs |-> {}]
  /\ returned = [t \in Tabs |-> {}]
  /\ creator = [c \in Chats |-> "none"]
  /\ gestures = 0
  /\ lastTab = [op |-> "init", tab |-> "none", chatId |-> NoChat]

\* Everything one handler of tab t reads and writes, as one value: the server
\* (manager, agents, registry, sockets, database) and the tab (store, client,
\* sessionStorage).
World(t) ==
  [m |-> Mgr, agentCount |-> agentCount, agentChat |-> agentChat,
   agentRunning |-> agentRunning,
   reg |-> syncConnections, state |-> wsState, out |-> wsOut,
   dbChats |-> dbChats, dbMessages |-> dbMessages,
   st |-> tabs[t], cl |-> client[t], stor |-> storage[t], fl |-> flows[t],
   busySince |-> busySince[t], awayTask |-> awayTask[t],
   returned |-> returned[t]]

\* frames of a socket that are sync events (the connected frame is not one)
EventFrames(q) == SelectSeq(q, LAMBDA f : f.type # "connected")

\* no socket holds more unread events than the bound
Fits(w) == \A c \in ConnIds : Len(EventFrames(w.out[c])) <= MaxQueue

\* ZypherApiClient.getHeaders: X-Connection-ID, absent while connectionId is null
Hdr(w) == w.cl.connectionId

broadcast(w, event, excludeConnectionId) ==
  [w EXCEPT !.out = broadcastSyncEvent(w.out, w.reg, w.state, TabSession, event,
                                       excludeConnectionId)]

\* crypto.randomUUID(): an id no row has
NextChatId(w) == CHOOSE c \in Chats : c \notin Ids(w.dbChats)
NextMsgId(w) == CHOOSE m \in MsgIds : m \notin Ids(w.dbMessages)

\* ChatService
listChats(w) == SortDesc(w.dbChats)

\* POST /chats
routeCreateChat(w, t) ==
  LET chat == ChatOf(NextChatId(w), t) IN
    broadcast([w EXCEPT !.dbChats = Append(@, chat)],
              [type |-> "chat_created", chat |-> chat], Hdr(w))

\* POST /chats/:id/messages (the chat exists)
routeAddMessage(w, chatId, t) ==
  LET message == [id |-> NextMsgId(w), chatId |-> chatId] IN
    broadcast([w EXCEPT !.dbMessages = Append(@, message),
                        !.dbChats = Touch(@, chatId, t)],
              [type |-> "message_added", chatId |-> chatId, message |-> message], Hdr(w))

\* DELETE /chats/:id/agent, POST and DELETE /chats/:id/agent/pending-destruction
routeDestroyAgent(w, chatId) == [w EXCEPT !.m = destroyAgent(@, chatId)]
routeMarkPending(w, chatId) == [w EXCEPT !.m = markForPendingDestruction(@, chatId)]
routeCancelPending(w, chatId) == [w EXCEPT !.m = cancelPendingDestruction(@, chatId)]

\* DELETE /chats/:id/messages/:messageId: the row with this id in this chat
routeDeleteMessage(w, chatId, messageId) ==
  IF \E i \in 1..Len(w.dbMessages) :
       w.dbMessages[i].id = messageId /\ w.dbMessages[i].chatId = chatId
    THEN broadcast([w EXCEPT !.dbMessages = SelectSeq(@, LAMBDA m : m.id # messageId)],
                   [type |-> "message_deleted", chatId |-> chatId, messageId |-> messageId],
                   Hdr(w))
    ELSE w

\* POST /user-agent/chats/:chatId/cancel (the chat exists)
routeCancel(w, chatId) ==
  IF w.m.chatAgents[chatId] # NoAgent /\ w.m.chatAgents[chatId] \in w.agentRunning
    THEN broadcast(w, [type |-> "task_cancel_requested", chatId |-> chatId], Hdr(w))
    ELSE broadcast(w, [type |-> "task_ended", chatId |-> chatId], Hdr(w))

\* POST /chats/:id/task-started
routeTaskStarted(w, chatId) ==
  broadcast([w EXCEPT !.m = IF Hdr(w) # NoConn
                              THEN registerTaskHandler(@, chatId, Hdr(w)) ELSE @],
            [type |-> "task_started", chatId |-> chatId], Hdr(w))

\* POST /chats/:id/task-ended
routeTaskEnded(w, chatId) ==
  broadcast([w EXCEPT !.m = unregisterTaskHandler(@, chatId)],
            [type |-> "task_ended", chatId |-> chatId], Hdr(w))

\* app.all("/user-agent/chats/:chatId/agent/*"): sweep, then getOrCreateAgent
\* run to its end (the chat exists)
routeAgent(w, chatId) ==
  LET swept == cleanupPendingAgents(w.m, w.agentRunning) IN
    IF swept.chatAgents[chatId] # NoAgent
      THEN [w EXCEPT !.m = swept]
      ELSE [w EXCEPT !.m = [swept EXCEPT !.chatAgents[chatId] = w.agentCount + 1],
                     !.agentCount = @ + 1,
                     !.agentChat[w.agentCount + 1] = chatId]

\* GET /user-agent/agents/active: sweep, then the cached entries
routeActiveAgents(w) == [w EXCEPT !.m = cleanupPendingAgents(@, w.agentRunning)]

\* the chats whose cached agent reports isTaskRunning
runningAgents(w) ==
  {c \in Chats : w.m.chatAgents[c] # NoAgent /\ w.m.chatAgents[c] \in w.agentRunning}

\* ---- the tab side ----

\* The sync effect of App.tsx depends on runningTaskChatIds: when the set is
\* replaced the effect's cleanup closes the socket (the server unregisters it)
\* and a new socket is opened after the delay.
syncEffectCleanup(w) ==
  IF w.cl.sock = NoConn THEN w
  ELSE [w EXCEPT !.reg = unregisterSyncConnection(@, TabSession, w.cl.sock),
                 !.state[w.cl.sock] = "closed",
                 !.out[w.cl.sock] = <<>>,
                 !.cl.sock = NoConn]

addRunningTaskChat(w, chatId) ==
  syncEffectCleanup([w EXCEPT !.st.runningTaskChatIds = @ \cup {chatId}])

removeRunningTaskChat(w, chatId) ==
  syncEffectCleanup([w EXCEPT !.st.runningTaskChatIds = @ \ {chatId}])

clearStreamingMessages(w, chatId) == [w EXCEPT !.st.streamingMessages[chatId] = <<>>]

\* addMessage: appended to the list on display, whatever chat that is
addMessage(w, message) == [w EXCEPT !.st.messages = Append(@, [id |-> message.id])]

savePendingMessage(w, chatId, messageId) ==
  [w EXCEPT !.stor.pending[chatId] = messageId]
clearPendingMessage(w, chatId) == [w EXCEPT !.stor.pending[chatId] = "none"]

\* doCancelToEdit, line 180: the ref first, then the record of the chat
pendingOf(w, chatId) ==
  IF w.cl.pendingRef # "none" THEN w.cl.pendingRef ELSE w.stor.pending[chatId]

\* connectionRef.current.cancelTask(), connectionRef.current = null: the task of
\* the channel the ref holds is cancelled on the server (a closed channel: no-op)
cancelChannel(w) ==
  IF w.cl.connectionRef = NoChat THEN w
  ELSE [w EXCEPT !.agentRunning = IF w.fl[w.cl.connectionRef].pc = "stream"
                                    THEN @ \ {w.fl[w.cl.connectionRef].agent} ELSE @,
                 !.cl.connectionRef = NoChat]

\* doCancelToEdit; ok: the delete request succeeds (otherwise it throws and the
\* catch block logs). The input field is not part of the state.
doCancelToEdit(w, chatId, ok) ==
  LET pending == pendingOf(w, chatId) IN
    IF pending = "none" THEN w
    ELSE LET w1 == IF ok THEN routeDeleteMessage(w, chatId, pending) ELSE w
             w2 == [w1 EXCEPT !.st.messages = SelectSeq(@, LAMBDA m : m.id # pending)]
         IN [clearPendingMessage(clearStreamingMessages(w2, chatId), chatId)
               EXCEPT !.cl.pendingRef = "none"]

\* handleSyncEvent of the tab's store, with the busy interval noted
applySyncEvent(w, event, t) ==
  [w EXCEPT !.st = handleSyncEvent(@, event, t),
            !.busySince = IF event.type = "task_started" THEN @ \cup {event.chatId}
                          ELSE IF event.type = "task_ended" THEN @ \ {event.chatId}
                          ELSE @]

\* setActiveChat, requests answered as they are sent
setActiveChat(w, chatId) ==
  IF chatId = w.st.activeChatId THEN w
  ELSE
    LET previous == w.st.activeChatId
        wasRunning == previous \in w.st.runningTaskChatIds
        w1 == [w EXCEPT !.stor.activeChatId = chatId,
                        !.st.activeChatId = chatId,
                        !.st.messages = <<>>,
                        !.awayTask = (IF /\ previous # NoChat /\ wasRunning
                                         /\ w.fl[previous].pc = "stream"
                                         /\ w.fl[previous].agent \in w.agentRunning
                                        THEN @ \cup {previous} ELSE @) \ {chatId},
                        !.returned = (@ \ {previous})
                                     \cup (IF /\ chatId \in w.awayTask
                                               /\ w.fl[chatId].pc = "stream"
                                               /\ w.fl[chatId].agent \in w.agentRunning
                                             THEN {chatId} ELSE {})]
        w2 == IF previous = NoChat THEN w1
              ELSE IF wasRunning THEN routeMarkPending(w1, previous)
              ELSE routeDestroyAgent(w1, previous)
    IN IF chatId = NoChat THEN w2
       ELSE [routeCancelPending(w2, chatId) EXCEPT
               !.st.messages = [i \in 1..Len(getChatMessages(w2, chatId)) |->
                                  transformMessage(getChatMessages(w2, chatId)[i])]]

\* createChat of the store
createChat(w, t) ==
  [routeCreateChat(w, t) EXCEPT !.st = createChatDone(@, ChatOf(NextChatId(w), t))]

\* a page load: init, fetchChats, and the saved active chat restored
loadPage(w) ==
  LET closed == syncEffectCleanup(w)
      fresh == [closed EXCEPT
                  !.cl = NewClient(NoConn, FALSE),
                  !.st = fetchChatsDone(EmptyStore, listChats(w)),
                  !.fl = [c \in Chats |-> IdleFlow],
                  !.busySince = {},
                  !.awayTask = {},
                  !.returned = {}]
  IN IF w.stor.activeChatId = NoChat THEN fresh
     ELSE IF w.stor.activeChatId \in Ids(listChats(w))
       THEN setActiveChat(fresh, w.stor.activeChatId)
       ELSE [fresh EXCEPT !.stor.activeChatId = NoChat]

\* checkRunningTasks, one iteration of its loop over the running agents
checkRunningStep(w, chatId, t) ==
  IF w.stor.pending[chatId] # "none"
    THEN LET w1 == addRunningTaskChat(setActiveChat(w, chatId), chatId)
             w2 == routeAgent(w1, chatId)
             w3 == routeTaskStarted(w2, chatId)
         IN [w3 EXCEPT !.fl[chatId] = [pc |-> "stream", agent |-> w2.m.chatAgents[chatId]],
                       !.cl.pendingRef = w.stor.pending[chatId],
                       !.cl.connectionRef = chatId]
    ELSE applySyncEvent(w, [type |-> "task_started", chatId |-> chatId], t)

RECURSIVE checkRunningLoop(_, _, _)
checkRunningLoop(w, todo, t) ==
  IF todo = {} THEN w
  ELSE LET chatId == CHOOSE c \in todo : TRUE
       IN checkRunningLoop(checkRunningStep(w, chatId, t), todo \ {chatId}, t)

checkRunningTasks(w, t) ==
  LET w1 == routeActiveAgents(w)
  IN [checkRunningLoop(w1, runningAgents(w1), t) EXCEPT !.cl.checked = TRUE]

\* the guard of handleSubmit (the input is not empty)
handleSubmitBlockedNoBusy(st) ==
  st.activeChatId # NoChat /\ st.activeChatId \in st.runningTaskChatIds

handleSubmitBlocked(st) ==
  \/ st.activeChatId # NoChat /\ st.activeChatId \in st.runningTaskChatIds
  \/ st.activeChatId # NoChat /\ st.activeChatId \in st.busyChats

\* ---- the tabs and the server together (SpecTabs) ----
SetWorld(t, w) ==
  /\ Fits(w)
  /\ w.agentCount <= MaxAgents
  /\ SetMgr(w.m)
  /\ agentCount' = w.agentCount
  /\ agentChat' = w.agentChat
  /\ agentRunning' = w.agentRunning
  /\ syncConnections' = w.reg
  /\ wsState' = w.state
  /\ wsOut' = w.out
  /\ dbChats' = w.dbChats
  /\ dbMessages' = w.dbMessages
  /\ tabs' = [tabs EXCEPT ![t] = w.st]
  /\ client' = [client EXCEPT ![t] = w.cl]
  /\ storage' = [storage EXCEPT ![t] = w.stor]
  /\ flows' = [flows EXCEPT ![t] = w.fl]
  /\ busySince' = [busySince EXCEPT ![t] = w.busySince]
  /\ awayTask' = [awayTask EXCEPT ![t] = w.awayTask]
  /\ returned' = [returned EXCEPT ![t] = w.returned]
  /\ UNCHANGED <<calls, lastCall, connectionCounter, connSession, lastSend, now, lastEvent, deltas, render>>

OtherOp == [op |-> "other", tab |-> "none", chatId |-> NoChat]

Gesture == gestures < MaxGestures /\ gestures' = gestures + 1

\* history of a cancellation in tab t for chatId: the chat whose channel got the
\* cancel, the message whose deletion was requested, the text put in the input
CancelOp(w, t, chatId, ok, remote) ==
  [op |-> "cancel", tab |-> t, chatId |-> chatId, ok |-> ok, remote |-> remote,
   cancelled |-> w.cl.connectionRef,
   deleted |-> pendingOf(w, chatId),
   restored |-> IF w.st.activeChatId = chatId THEN pendingOf(w, chatId) ELSE "none"]

\* connectSyncWebSocket, connect(): the server registers the socket and sends
\* the connected frame
TabConnect(t) ==
  /\ client[t].sock = NoConn
  /\ openSocket(TabSession)
  /\ client' = [client EXCEPT ![t].sock = connectionCounter + 1]
  /\ lastTab' = OtherOp
  /\ UNCHANGED <<mgrVars, storeVars, lastSend, flows, storage, dbChats, dbMessages,
                 busySince, awayTask, returned, creator>>
  /\ UNCHANGED gestures

\* ws.onmessage of the sync socket
TabRead(t) ==
  /\ client[t].sock # NoConn
  /\ wsOut[client[t].sock] # <<>>
  /\ LET frame == Head(wsOut[client[t].sock])
         w == [World(t) EXCEPT !.out[client[t].sock] = Tail(@)]
     IN IF frame.type = "connected"
          THEN /\ SetWorld(t, [w EXCEPT !.cl.connectionId = frame.connectionId])
               /\ lastTab' = OtherOp
        ELSE IF frame.type = "task_cancel_requested"
          THEN IF frame.chatId \in w.st.runningTaskChatIds /\ w.cl.connectionRef # NoChat
                 THEN \E ok \in BOOLEAN :
                        /\ SetWorld(t, doCancelToEdit(cancelChannel(w), frame.chatId, ok))
                        /\ lastTab' = CancelOp(w, t, frame.chatId, ok, TRUE)
                 ELSE SetWorld(t, w) /\ lastTab' = OtherOp
        ELSE /\ SetWorld(t, applySyncEvent(w, frame, now))
             /\ lastTab' = OtherOp
  /\ UNCHANGED creator
  /\ UNCHANGED gestures

\* Sidebar.handleNewChat: createChat, then setActiveChat
TabNewChat(t) ==
  /\ Ids(dbChats) # Chats
  /\ LET w == World(t) IN SetWorld(t, setActiveChat(createChat(w, now), NextChatId(w)))
  /\ creator' = [creator EXCEPT ![NextChatId(World(t))] = t]
  /\ lastTab' = OtherOp
  /\ Gesture

\* a chat of the sidebar is clicked: setActiveChat
TabSelect(t, chatId) ==
  /\ chatId \in Ids(tabs[t].chats)
  /\ chatId # tabs[t].activeChatId
  /\ SetWorld(t, setActiveChat(World(t), chatId))
  /\ lastTab' = OtherOp
  /\ UNCHANGED creator
  /\ Gesture

\* handleSubmit up to its first await on the message request. A blocked submit
\* returns at the guard.
TabSubmit(t) ==
  /\ lastTab' = [op |-> "submit", tab |-> t, chatId |-> tabs[t].activeChatId]
  /\ IF handleSubmitBlocked(tabs[t])
       THEN UNCHANGED <<mgrVars, syncVars, storeVars, client, flows, storage, dbChats,
                        dbMessages, busySince, awayTask, returned, creator>>
       ELSE LET w == World(t)
                fresh == w.st.activeChatId = NoChat
                w1 == IF fresh THEN setActiveChat(createChat(w, now), NextChatId(w)) ELSE w
                chatId == w1.st.activeChatId
                w2 == addRunningTaskChat(w1, chatId)
            IN /\ fresh => Ids(dbChats) # Chats
               /\ Len(dbMessages)
                    + Cardinality({x \in Tabs \X Chats : flows[x[1]][x[2]].pc = "persist"})
                    < Cardinality(MsgIds)
               /\ SetWorld(t, [w2 EXCEPT !.fl[chatId] = [pc |-> "persist", agent |-> NoAgent]])
               /\ creator' = IF fresh THEN [creator EXCEPT ![chatId] = t] ELSE creator
  /\ Gesture

\* handleSubmit: the message request answered; addMessage, savePendingMessage
TabPersist(t, chatId) ==
  /\ flows[t][chatId].pc = "persist"
  /\ LET w == World(t)
         w1 == routeAddMessage(w, chatId, now)
         w2 == savePendingMessage(addMessage(w1, [id |-> NextMsgId(w)]), chatId, NextMsgId(w))
     IN SetWorld(t, [w2 EXCEPT !.fl[chatId].pc = "start", !.cl.pendingRef = NextMsgId(w)])
  /\ lastTab' = OtherOp
  /\ UNCHANGED creator
  /\ UNCHANGED gestures

\* handleSubmit: startTaskForChat opens the task channel (the agent route), the
\* task starts, notifyTaskStarted. A channel to an agent already running a task
\* either attaches to it or fails, and the catch block runs.
TabStartTask(t, chatId) ==
  /\ flows[t][chatId].pc = "start"
  /\ LET w == World(t)
         w1 == routeAgent(w, chatId)
         agent == w1.m.chatAgents[chatId]
         w2 == [w1 EXCEPT !.agentRunning = @ \cup {agent}]
     IN \E attached \in BOOLEAN :
          /\ agent \notin w.agentRunning => attached
          /\ IF attached
               THEN SetWorld(t, [routeTaskStarted(w2, chatId) EXCEPT
                                   !.fl[chatId] = [pc |-> "stream", agent |-> agent],
                                   !.cl.connectionRef = chatId])
               ELSE SetWorld(t, [removeRunningTaskChat(w1, chatId) EXCEPT
                                   !.fl[chatId] = IdleFlow])
  /\ lastTab' = OtherOp
  /\ UNCHANGED creator
  /\ UNCHANGED gestures

\* the agent's task completes on the server
AgentFinish(a) ==
  /\ agentTaskEnd(a)
  /\ lastTab' = OtherOp
  /\ UNCHANGED <<lastCall, syncVars, storeVars, client, flows, storage, dbChats, dbMessages,
                 busySince, awayTask, returned, creator>>
  /\ UNCHANGED gestures

\* handleTaskEvents, lines 322-334: the finally block, entered when the loop
\* over the events ends or throws
handleTaskEventsFinallyQuiet(w, chatId) ==
  LET w1 == removeRunningTaskChat(w, chatId)
      w2 == clearPendingMessage(clearStreamingMessages(w1, chatId), chatId)
  IN [w2 EXCEPT !.fl[chatId] = IdleFlow, !.cl.pendingRef = "none"]

handleTaskEventsFinally(w, chatId) ==
  LET w1 == removeRunningTaskChat(w, chatId)
      w2 == clearPendingMessage(clearStreamingMessages(w1, chatId), chatId)
  IN [routeTaskEnded(w2, chatId) EXCEPT !.fl[chatId] = IdleFlow,
                                        !.cl.pendingRef = "none"]

\* handleTaskEvents: the event stream is over, the finally block runs
TabStreamEnd(t, chatId) ==
  /\ flows[t][chatId].pc = "stream"
  /\ flows[t][chatId].agent \notin agentRunning
  /\ SetWorld(t, handleTaskEventsFinally(World(t), chatId))
  /\ lastTab' = OtherOp
  /\ UNCHANGED creator
  /\ UNCHANGED gestures

\* the stop button of a chat running in this tab: handleCancel; ok: the delete
\* request is answered (with success or with 404), it does not fail on the way
TabCancel(t, ok) ==
  /\ tabs[t].activeChatId # NoChat
  /\ tabs[t].activeChatId \in tabs[t].runningTaskChatIds
  /\ LET w == World(t) IN
       /\ SetWorld(t, doCancelToEdit(cancelChannel(w), w.st.activeChatId, ok))
       /\ lastTab' = CancelOp(w, t, w.st.activeChatId, ok, FALSE)
  /\ UNCHANGED creator
  /\ Gesture

\* the stop button of a chat that is busy in another tab: handleCancelRemote
TabCancelRemote(t) ==
  /\ tabs[t].activeChatId # NoChat
  /\ tabs[t].activeChatId \notin tabs[t].runningTaskChatIds
  /\ tabs[t].activeChatId \in tabs[t].busyChats
  /\ SetWorld(t, routeCancel(World(t), tabs[t].activeChatId))
  /\ lastTab' = [op |-> "cancelRemote", tab |-> t, chatId |-> tabs[t].activeChatId,
                  found |-> /\ chatAgents[tabs[t].activeChatId] # NoAgent
                            /\ chatAgents[tabs[t].activeChatId] \in agentRunning]
  /\ UNCHANGED creator
  /\ Gesture

\* the page is reloaded
TabReload(t) ==
  /\ SetWorld(t, loadPage(World(t)))
  /\ lastTab' = OtherOp
  /\ UNCHANGED creator
  /\ Gesture

\* checkRunningTasks, once per page load
TabCheckRunning(t) ==
  /\ ~client[t].checked
  /\ SetWorld(t, checkRunningTasks(World(t), now))
  /\ lastTab' = OtherOp
  /\ UNCHANGED creator
  /\ UNCHANGED gestures

(***************************************************************************)
(* Specifications                                                          *)
(***************************************************************************)
\* the server has started and the tabs have loaded against an empty database;
\* no sync socket is open yet
Init == ManagerInit /\ SyncInit /\ StoreInit /\ AppInit

\* ---- SpecMgr: the AgentManager driven directly ----

SpecMgr == Init /\ [][MgrNext]_vars

Overlap(a, b) == a \in calls[b].over \/ b \in calls[a].over

\* C1: getOrCreateAgent calls for one chatId that overlap all resolve to the same
\* AgentEntry and the agent constructor runs once: two overlapping calls never
\* hold two distinct agents.
C1_OneAgentPerOverlap ==
  \A a, b \in Calls :
    (/\ a # b
     /\ calls[a].chatId = calls[b].chatId
     /\ Overlap(a, b)
     /\ calls[a].entry # NoAgent
     /\ calls[b].entry # NoAgent)
    => calls[a].entry = calls[b].entry

\* C3: markForPendingDestruction changes nothing when chatId has no entry, and a
\* cleanupPendingAgents sweep removes exactly the entries that are flagged pending
\* and whose agent is not running a task; every other entry stays as it was.
C3_PendingGating ==
  [][ /\ (lastCall'.op = "mark" /\ chatAgents[lastCall'.chatId] = NoAgent)
         => UNCHANGED <<chatAgents, pendingDestruction, taskHandlers, agentCount,
                        agentChat, agentRunning, calls>>
      /\ lastCall'.op = "cleanup"
         => \A c \in Chats :
              IF /\ chatAgents[c] # NoAgent
                 /\ c \in pendingDestruction
                 /\ chatAgents[c] \notin agentRunning
                THEN chatAgents'[c] = NoAgent
                ELSE chatAgents'[c] = chatAgents[c] ]_vars

\* a sweep that removed an idle flagged entry and left a flagged running one
C3_Witness ==
  /\ lastCall.op = "cleanup"
  /\ lastCall.removed # {}
  /\ \E c \in Chats : c \in pendingDestruction /\ chatAgents[c] \in agentRunning

\* C32: a cleanupPendingAgents sweep that follows another sweep with nothing in
\* between changes nothing; and any sweep creates no entry, adds no pending
\* flag, and leaves the entry, the flag and the handler of every chatId that was
\* not flagged pending as they were.
C32_SweepRedundant ==
  [][ /\ (lastCall.op = "cleanup" /\ lastCall'.op = "cleanup")
         => UNCHANGED <<chatAgents, pendingDestruction, taskHandlers>>
      /\ lastCall'.op = "cleanup"
         => /\ \A c \in Chats : chatAgents'[c] \in {chatAgents[c], NoAgent}
            /\ pendingDestruction' \subseteq pendingDestruction
            /\ UNCHANGED <<agentCount, agentChat, agentRunning>>
            /\ \A c \in Chats \ pendingDestruction :
                 /\ chatAgents'[c] = chatAgents[c]
                 /\ taskHandlers'[c] = taskHandlers[c] ]_vars

\* a sweep that found nothing to remove: one chat is still flagged because its
\* agent runs a task, the other chat's entry is gone, its handler is kept
C32_Witness ==
  /\ lastCall.op = "cleanup"
  /\ lastCall.removed = {}
  /\ \E c \in Chats :
       /\ c \in pendingDestruction /\ chatAgents[c] \in agentRunning
       /\ \E d \in Chats \ {c} : chatAgents[d] = NoAgent /\ agentChat[1] = d
  /\ \E c \in Chats \ pendingDestruction : taskHandlers[c] # NoConn

\* C15: destroyAgent(chatId) leaves chatId without entry, pending flag and task
\* handler whatever it had before, leaves every other chatId as it was, and a
\* second destroyAgent(chatId) right after changes nothing.
C15_DestroyUnconditional ==
  [][ /\ lastCall'.op = "destroy"
         => /\ chatAgents'[lastCall'.chatId] = NoAgent
            /\ lastCall'.chatId \notin pendingDestruction'
            /\ taskHandlers'[lastCall'.chatId] = NoConn
            /\ \A c \in Chats \ {lastCall'.chatId} :
                 /\ chatAgents'[c] = chatAgents[c]
                 /\ taskHandlers'[c] = taskHandlers[c]
                 /\ (c \in pendingDestruction') = (c \in pendingDestruction)
      /\ (/\ lastCall.op = "destroy"
          /\ lastCall'.op = "destroy"
          /\ lastCall'.chatId = lastCall.chatId)
         => UNCHANGED <<chatAgents, pendingDestruction, taskHandlers>> ]_vars

\* a destroy that removed the entry of a chat whose agent is running a task and
\* whose handler was registered, while the other chat keeps its flagged entry
C15_Witness ==
  /\ lastCall.op = "destroy"
  /\ lastCall.chatId \in lastCall.removed
  /\ \E a \in agentRunning : agentChat[a] = lastCall.chatId
  /\ \E c \in Chats \ {lastCall.chatId} :
       chatAgents[c] # NoAgent /\ c \in pendingDestruction /\ taskHandlers[c] # NoConn

\* C16: every chatId in the pending-destruction set has a cached entry.
C16_PendingHasEntry ==
  \A c \in pendingDestruction : chatAgents[c] # NoAgent

\* an entry has just been destroyed and a chat is still flagged
C16_Witness ==
  /\ lastCall.op = "destroy"
  /\ lastCall.removed # {}
  /\ pendingDestruction # {}

\* ---- SpecFail: getOrCreateAgent calls that can throw ----
MgrThrow ==
  /\ UNCHANGED <<syncVars, storeVars, appVars>>
  /\ \E k \in Calls : getOrCreateAgentThrow(k) /\ Note("throw", calls[k].chatId)

FailNext ==
  \/ MgrBegin \/ MgrConstruct \/ MgrFinish \/ MgrThrow \/ MgrReturn

SpecFail == Init /\ [][FailNext]_vars

\* C14: when getOrCreateAgent(chatId) throws, the caller gets the error and no
\* entry, and the cache, the pending set and the task handlers are as they were;
\* a call that finds no entry for its chatId always goes on to create one.
C14_FailureLeavesNothing ==
  [][ \A k \in Calls :
        /\ (InFlight(k) /\ calls'[k].pc = "failed")
           => /\ calls'[k].entry = NoAgent
              /\ UNCHANGED <<chatAgents, pendingDestruction, taskHandlers>>
        /\ (/\ calls[k].pc = "idle"
            /\ calls'[k].pc # "idle"
            /\ chatAgents[calls'[k].chatId] = NoAgent)
           => calls'[k].pc = "fetch" ]_vars

\* a call for a chat failed, and a call for the same chat that began after the
\* failure has built and cached an entry
C14_Witness ==
  \E j, k \in Calls :
    /\ calls[j].pc = "failed"
    /\ calls[k].pc = "done"
    /\ calls[k].chatId = calls[j].chatId
    /\ ~Overlap(j, k)
    /\ calls[k].entry # NoAgent
    /\ chatAgents[calls[k].chatId] = calls[k].entry

\* ---- SpecBcast: the registry and the broadcaster driven directly ----
BcastOpen == UNCHANGED <<mgrVars, storeVars, appVars>> /\ \E s \in Sessions : SyncOpen(s)
BcastDown == UNCHANGED <<mgrVars, storeVars, appVars>> /\ \E c \in ConnIds : SocketDown(c)
BcastClose == UNCHANGED <<mgrVars, storeVars, appVars>> /\ \E c \in ConnIds : SyncClose(c)
BcastSend ==
  /\ UNCHANGED <<mgrVars, storeVars, appVars>>
  /\ \E s \in Sessions, e \in SyncEvents, x \in ConnIds \cup {NoConn} : Broadcast(s, e, x)
BcastRead == UNCHANGED <<mgrVars, storeVars, appVars>> /\ \E c \in ConnIds : SyncRead(c)


BcastNext ==
  \/ BcastOpen \/ BcastDown \/ BcastClose \/ BcastSend \/ BcastRead
  \/ /\ UNCHANGED <<mgrVars, storeVars, appVars>>
     /\ \E s \in Sessions, e \in SyncEvents, x \in ConnIds \cup {NoConn},
           throwing \in SUBSET ConnIds : BroadcastThrows(s, e, x, throwing)

SpecBcast == Init /\ [][BcastNext]_vars

\* C6: broadcast(session, event, cid) sends nothing to connection cid, sends the
\* event once to every other connection registered under session whose socket is
\* open, and sends nothing at all when session has no registered connection.
C6_ExcludeSender ==
  [][ lastSend'.op = "broadcast"
      => \A c \in ConnIds :
           IF /\ c \in Bucket(syncConnections, lastSend'.sessionId)
              /\ wsState[c] = "open"
              /\ c # lastSend'.exclude
             THEN wsOut'[c] = Append(wsOut[c], lastSend'.event)
             ELSE wsOut'[c] = wsOut[c] ]_vars

\* a broadcast whose sender is registered and open, with an open sibling that got
\* the event
C6_Witness ==
  /\ lastSend.op = "broadcast"
  /\ lastSend.exclude \in Bucket(syncConnections, lastSend.sessionId)
  /\ wsState[lastSend.exclude] = "open"
  /\ \E c \in Bucket(syncConnections, lastSend.sessionId) \ {lastSend.exclude} :
       /\ wsOut[c] # <<>>
       /\ wsOut[c][Len(wsOut[c])] = lastSend.event


\* C19: when ws.send throws on some connections during one broadcast, every
\* other open connection of the session (the excluded one apart) still gets the
\* event once, the throwing ones get nothing (no retry), and the call returns
\* without an error.
C19_SendFailureSkipped ==
  [][ lastSend'.op = "broadcast_throws"
      => /\ ~lastSend'.error
         /\ \A c \in ConnIds :
              IF /\ c \in Bucket(syncConnections, lastSend'.sessionId)
                 /\ wsState[c] = "open"
                 /\ c # lastSend'.exclude
                 /\ c \notin lastSend'.throwing
                THEN wsOut'[c] = Append(wsOut[c], lastSend'.event)
                ELSE wsOut'[c] = wsOut[c] ]_vars

\* the send threw on a connection and a connection visited after it got the event
C19_Witness ==
  /\ lastSend.op = "broadcast_throws"
  /\ \E c \in lastSend.throwing, d \in Bucket(syncConnections, lastSend.sessionId) :
       /\ c < d
       /\ wsOut[c] = <<>>
       /\ wsOut[d] = <<lastSend.event>>

\* C20: a connection's first frame is the connected frame with the id it is
\* registered under: nothing is sent on a socket that has not opened, and the
\* step that opens it registers it and sends exactly that frame.
C20_ConnectedFirst ==
  /\ [](\A c \in ConnIds : connSession[c] = "none" => wsOut[c] = <<>>)
  /\ [][ \A c \in ConnIds :
           (connSession[c] = "none" /\ connSession'[c] # "none")
           => /\ wsOut'[c] = <<Connected(c)>>
              /\ c \in Bucket(syncConnections', connSession'[c]) ]_vars

\* a socket has just opened while a sibling of its session holds a broadcast
C20_Witness ==
  /\ lastSend.op = "open"
  /\ wsOut[connectionCounter] = <<Connected(connectionCounter)>>
  /\ \E d \in Bucket(syncConnections, lastSend.sessionId) \ {connectionCounter} :
       /\ wsOut[d] # <<>>
       /\ wsOut[d][1].type # "connected"

\* ---- SpecReg: registerSyncConnection and unregisterSyncConnection called ----
\* ---- in any order, with any arguments                                   ----
RegNext ==
  \/ UNCHANGED <<mgrVars, storeVars, appVars>> /\ \E s \in Sessions : SyncOpen(s)
  \/ UNCHANGED <<mgrVars, storeVars, appVars>> /\ \E c \in ConnIds : SyncRead(c)
  \/ /\ UNCHANGED <<mgrVars, storeVars, appVars>>
     /\ \E s \in Sessions, c \in ConnIds : Unregister(s, c)

SpecReg == Init /\ [][RegNext]_vars

\* C30: the registry never holds an empty bucket; a register call adds the new
\* connection to the bucket of its session and leaves every other bucket as it
\* was; an unregister call removes the connection from the bucket of the
\* session named, leaves every other bucket as it was, and leaves the whole
\* registry as it was when the session has no bucket or the bucket does not
\* hold the connection. (So the registry holds exactly what was registered and
\* not yet unregistered.)
C30_RegistryExact ==
  /\ [](\A s \in DOMAIN syncConnections : syncConnections[s] # {})
  /\ [][ lastSend'.op = "open"
         => /\ connectionCounter' \notin UNION {Bucket(syncConnections, s) : s \in Sessions}
            /\ \A s \in Sessions :
                 Bucket(syncConnections', s) =
                   Bucket(syncConnections, s)
                     \cup (IF s = lastSend'.sessionId THEN {connectionCounter'} ELSE {}) ]_vars
  /\ [][ lastSend'.op = "unregister"
         => /\ \A s \in Sessions :
                 Bucket(syncConnections', s) =
                   Bucket(syncConnections, s)
                     \ (IF s = lastSend'.sessionId THEN {lastSend'.exclude} ELSE {})
            /\ lastSend'.exclude \notin Bucket(syncConnections, lastSend'.sessionId)
               => syncConnections' = syncConnections ]_vars

\* the last connection of a session has just been unregistered while another
\* session still holds one
C30_Witness ==
  /\ lastSend.op = "unregister"
  /\ connSession[lastSend.exclude] = lastSend.sessionId
  /\ lastSend.sessionId \notin DOMAIN syncConnections
  /\ DOMAIN syncConnections # {}

(***************************************************************************)
(* SpecHttp: the HTTP routes of main.ts and routes/chats.ts under requests *)
(* with any headers: a session id or none, a connection id or none, any    *)
(* chat id                                                                 *)
(***************************************************************************)
\* the X-Session-ID header is absent
NoSession == "none"

\* a row of the chats table with its session_id column
ChatRow(id, sessionId) == [id |-> id, updatedAt |-> 0, sessionId |-> sessionId]

\* ChatService.getChat(chatId, sessionId): WHERE id = ? AND session_id = ?
ownedChat(db, chatId, sessionId) ==
  \E i \in 1..Len(db) : db[i].id = chatId /\ db[i].sessionId = sessionId

\* what a route handler reads and writes on the server, and the status it
\* answers with
Server ==
  [m |-> Mgr, agentCount |-> agentCount, agentChat |-> agentChat,
   out |-> wsOut, db |-> dbChats, status |-> 0, body |-> {}]

reply(r, status) == [r EXCEPT !.status = status]

send(r, sessionId, event, excludeConnectionId) ==
  [r EXCEPT !.out = broadcastSyncEvent(@, syncConnections, wsState, sessionId, event,
                                       excludeConnectionId)]

\* app.all("/user-agent/chats/:chatId/agent/*"): the sweep is the first
\* statement, before the headers are read; getOrCreateAgent run to its end
agentRoute(r, sessionId, chatId) ==
  LET swept == [r EXCEPT !.m = cleanupPendingAgents(@, agentRunning)] IN
    IF sessionId = NoSession THEN reply(swept, 400)
    ELSE IF ~ownedChat(r.db, chatId, sessionId) THEN reply(swept, 404)
    ELSE IF swept.m.chatAgents[chatId] # NoAgent THEN reply(swept, 200)
    ELSE reply([swept EXCEPT !.m.chatAgents[chatId] = r.agentCount + 1,
                             !.agentCount = @ + 1,
                             !.agentChat[r.agentCount + 1] = chatId], 200)

\* POST /user-agent/chats/:chatId/cancel
cancelRoute(r, sessionId, connectionId, chatId) ==
  IF sessionId = NoSession THEN reply(r, 400)
  ELSE IF ~ownedChat(r.db, chatId, sessionId) THEN reply(r, 404)
  ELSE IF r.m.chatAgents[chatId] # NoAgent /\ r.m.chatAgents[chatId] \in agentRunning
    THEN reply(send(r, sessionId, [type |-> "task_cancel_requested", chatId |-> chatId],
                    connectionId), 200)
    ELSE reply(send(r, sessionId, [type |-> "task_ended", chatId |-> chatId],
                    connectionId), 200)

\* AgentManager.getActiveAgents: one record per cached entry
getActiveAgents(m) ==
  {[chatId |-> c, isTaskRunning |-> isRunning(agentRunning, m.chatAgents[c]),
    pendingDestruction |-> c \in m.pendingDestruction,
    handlerConnectionId |-> m.taskHandlers[c]] :
     c \in {d \in Chats : m.chatAgents[d] # NoAgent}}

\* GET /user-agent/agents/active: the session header is read and used only
\* for isHandlerConnected; the sweep runs and the list is returned
activeAgentsRoute(r, sessionId) ==
  LET swept == cleanupPendingAgents(r.m, agentRunning) IN
    reply([r EXCEPT !.m = swept,
                    !.body = {[agent |-> a,
                               isHandlerConnected |->
                                 /\ a.handlerConnectionId # NoConn
                                 /\ sessionId # NoSession
                                 /\ isConnectionActive(syncConnections, wsState, sessionId,
                                                       a.handlerConnectionId)] :
                                a \in getActiveAgents(swept)}], 200)

\* createChatRoutes: sessionMiddleware, then the handler of the route
chatRoute(r, route, sessionId, connectionId, chatId) ==
  IF sessionId = NoSession THEN reply(r, 400)
  ELSE CASE route = "deleteChat" ->
              IF ~ownedChat(r.db, chatId, sessionId) THEN reply(r, 404)
              ELSE reply(send([r EXCEPT !.db = SelectSeq(@, LAMBDA c : c.id # chatId),
                                        !.m = destroyAgent(@, chatId)],
                              sessionId, [type |-> "chat_deleted", chatId |-> chatId],
                              connectionId), 200)
         [] route = "destroyAgent" -> reply([r EXCEPT !.m = destroyAgent(@, chatId)], 200)
         [] route = "markPending" ->
              reply([r EXCEPT !.m = markForPendingDestruction(@, chatId)], 200)
         [] route = "cancelPending" ->
              reply([r EXCEPT !.m = cancelPendingDestruction(@, chatId)], 200)
         [] route = "taskStarted" ->
              reply(send([r EXCEPT !.m = IF connectionId # NoConn
                                           THEN registerTaskHandler(@, chatId, connectionId)
                                           ELSE @],
                         sessionId, [type |-> "task_started", chatId |-> chatId],
                         connectionId), 200)
         [] route = "taskEnded" ->
              reply(send([r EXCEPT !.m = unregisterTaskHandler(@, chatId)],
                         sessionId, [type |-> "task_ended", chatId |-> chatId],
                         connectionId), 200)

ChatRoutes ==
  {"deleteChat", "destroyAgent", "markPending", "cancelPending", "taskStarted", "taskEnded"}

serve(r, route, sessionId, connectionId, chatId) ==
  CASE route = "agent" -> agentRoute(r, sessionId, chatId)
    [] route = "cancel" -> cancelRoute(r, sessionId, connectionId, chatId)
    [] route = "activeAgents" -> activeAgentsRoute(r, sessionId)
    [] OTHER -> chatRoute(r, route, sessionId, connectionId, chatId)

\* one request handled to its response
Request(route, sessionId, connectionId, chatId) ==
  LET r == serve(Server, route, sessionId, connectionId, chatId) IN
    /\ r.agentCount <= MaxAgents
    /\ \A k \in ConnIds : Len(r.out[k]) <= MaxQueue
    /\ SetMgr(r.m)
    /\ agentCount' = r.agentCount
    /\ agentChat' = r.agentChat
    /\ wsOut' = r.out
    /\ dbChats' = r.db
    /\ UNCHANGED <<agentRunning, calls, lastCall, syncConnections, connectionCounter,
                   connSession, wsState, lastSend, storeVars, client, flows, storage, dbMessages,
                   busySince, awayTask, returned, creator, gestures, lastTab>>

\* each session has created one chat; a tab of session s1 holds an open sync
\* socket whose connected frame it has read
HttpInit ==
  /\ ManagerInit /\ StoreInit
  /\ syncConnections = [s \in {"s1"} |-> {1}]
  /\ connectionCounter = 1
  /\ connSession = [c \in ConnIds |-> IF c = 1 THEN "s1" ELSE "none"]
  /\ wsState = [c \in ConnIds |-> IF c = 1 THEN "open" ELSE "none"]
  /\ wsOut = [c \in ConnIds |-> <<>>]
  /\ lastSend = [op |-> "init", sessionId |-> "none", event |-> "none", exclude |-> NoConn]
  /\ client = [t \in Tabs |-> NewClient(NoConn, TRUE)]
  /\ flows = [t \in Tabs |-> [c \in Chats |-> IdleFlow]]
  /\ storage = [t \in Tabs |-> NewStorage]
  /\ dbChats = <<ChatRow("c1", "s1"), ChatRow("c2", "s2")>>
  /\ dbMessages = <<>>
  /\ busySince = [t \in Tabs |-> {}]
  /\ awayTask = [t \in Tabs |-> {}]
  /\ returned = [t \in Tabs |-> {}]
  /\ creator = [c \in Chats |-> "none"]
  /\ gestures = 0
  /\ lastTab = [op |-> "init", tab |-> "none", chatId |-> NoChat]

HttpNext ==
  \/ \E s \in Sessions \cup {NoSession}, c \in Chats : Request("agent", s, NoConn, c)
  \/ \E s \in Sessions \cup {NoSession}, c \in Chats : Request("cancel", s, NoConn, c)
  \/ \E s \in Sessions \cup {NoSession} : Request("activeAgents", s, NoConn, NoChat)
  \/ \E s \in Sessions \cup {NoSession}, c \in Chats : Request("deleteChat", s, NoConn, c)
  \/ \E s \in Sessions \cup {NoSession}, c \in Chats : Request("destroyAgent", s, NoConn, c)
  \/ \E s \in Sessions \cup {NoSession}, c \in Chats : Request("markPending", s, NoConn, c)
  \/ \E s \in Sessions \cup {NoSession}, c \in Chats : Request("cancelPending", s, NoConn, c)
  \/ \E s \in Sessions \cup {NoSession}, x \in ConnIds \cup {NoConn}, c \in Chats :
       Request("taskStarted", s, x, c)
  \/ \E s \in Sessions \cup {NoSession}, c \in Chats : Request("taskEnded", s, NoConn, c)
  \/ MgrTaskStart
  \/ MgrTaskEnd
  \/ UNCHANGED <<mgrVars, storeVars, appVars>> /\ \E c \in ConnIds : SyncRead(c)

SpecHttp == HttpInit /\ [][HttpNext]_vars

HttpOps == ChatRoutes \cup {"agent", "cancel", "activeAgents"}

\* the status the server answers a request with
status(route, sessionId, connectionId, chatId) ==
  serve(Server, route, sessionId, connectionId, chatId).status

\* C21: a request to the per-chat agent route, a chat REST route, the cancel
\* route or the active-agents route that carries no session identifier is
\* rejected and leaves the manager's entry cache, pending set and handler
\* registry, the chat database and every socket's frames unchanged.
C21_NoSessionRejected ==
  [][ \A route \in HttpOps, x \in ConnIds \cup {NoConn}, c \in Chats \cup {NoChat} :
        Request(route, NoSession, x, c)
        => /\ status(route, NoSession, x, c) \in {400, 404}
           /\ UNCHANGED <<chatAgents, pendingDestruction, taskHandlers>>
           /\ UNCHANGED <<dbChats, dbMessages, wsOut>> ]_vars

\* C40: the active-agents snapshot a request of session S is answered with
\* lists only chats owned by S, whatever the entry cache holds.
C40_SnapshotOwnChatsOnly ==
  \A s \in Sessions :
    \A x \in activeAgentsRoute(Server, s).body : ownedChat(dbChats, x.agent.chatId, s)

\* C22: a destroy-agent, mark-pending, cancel-pending, task-started or
\* task-ended request of a session naming a chat that does not exist or that
\* another session owns is rejected, leaves the entry cache, pending set and
\* handler registry unchanged and broadcasts nothing.
C22_ForeignChatRejected ==
  [][ \A route \in {"destroyAgent", "markPending", "cancelPending", "taskStarted",
                    "taskEnded"},
         s \in Sessions, x \in ConnIds \cup {NoConn}, c \in Chats :
        (~ownedChat(dbChats, c, s) /\ Request(route, s, x, c))
        => /\ status(route, s, x, c) \in {400, 404}
           /\ UNCHANGED <<chatAgents, pendingDestruction, taskHandlers>>
           /\ wsOut' = wsOut ]_vars

(***************************************************************************)
(* SpecMerge: one tab's store under sync events and local list actions     *)
(***************************************************************************)
MergeTab == "t1"

\* every list of distinct chats, newest first, stamped no later than t
ChatLists(t) ==
  {<<>>}
  \cup {<<ChatOf(c, u)>> : c \in Chats, u \in 0..t}
  \cup {l \in {<<ChatOf(c, u), ChatOf(d, v)>> : c \in Chats, d \in Chats, u \in 0..t, v \in 0..t} :
          l[1].id # l[2].id /\ SortedDesc(l)}

MsgLists ==
  {<<>>} \cup {<<[id |-> m]>> : m \in MsgIds}
  \cup {l \in {<<[id |-> m], [id |-> n]>> : m \in MsgIds, n \in MsgIds} : l[1] # l[2]}

\* the events a sync socket can deliver at time t
MergeEvents(t) ==
  {[type |-> ty, chat |-> ChatOf(c, u)] : ty \in {"chat_created", "chat_updated"}, c \in Chats, u \in 0..t}
  \cup {[type |-> ty, chatId |-> c] : ty \in {"chat_deleted", "task_started", "task_ended"}, c \in Chats}
  \cup {[type |-> "message_added", chatId |-> c, message |-> [id |-> m]] : c \in Chats, m \in MsgIds}
  \cup {[type |-> "message_deleted", chatId |-> c, messageId |-> m] : c \in Chats, m \in MsgIds}

\* the tab after fetchChats and setActiveChat have completed
MergeInit ==
  /\ ManagerInit /\ SyncInit /\ AppInit
  /\ now = 0
  /\ lastEvent = [op |-> "none", event |-> NoEvent, twice |-> FALSE]
  /\ deltas = [c \in Chats |-> <<>>]
  /\ render = [messages |-> <<>>, groups |-> <<>>]
  /\ \E l \in ChatLists(0), a \in Chats \cup {NoChat}, ms \in MsgLists, b \in SUBSET Chats :
       /\ a \in Ids(l) \cup {NoChat}
       /\ a = NoChat => ms = <<>>
       /\ tabs = [t \in Tabs |->
                    IF t = MergeTab
                      THEN [EmptyStore EXCEPT !.chats = l, !.activeChatId = a,
                                              !.messages = ms, !.busyChats = b]
                      ELSE EmptyStore]

NoteStore(op, event) ==
  lastEvent' = [op |-> op, event |-> event,
                twice |-> op = "event" /\ lastEvent.op = "event" /\ lastEvent.event = event]

MergeTick ==
  /\ now < MaxTime
  /\ now' = now + 1
  /\ UNCHANGED <<mgrVars, syncVars, appVars, tabs, lastEvent, deltas, render>>

MergeEvent ==
  /\ UNCHANGED <<mgrVars, syncVars, appVars, now, deltas, render>>
  /\ \E e \in MergeEvents(now) :
       /\ tabs' = [tabs EXCEPT ![MergeTab] = handleSyncEvent(@, e, now)]
       /\ NoteStore("event", e)

MergeFetch ==
  /\ UNCHANGED <<mgrVars, syncVars, appVars, now, deltas, render>>
  /\ \E l \in ChatLists(now) :
       /\ tabs' = [tabs EXCEPT ![MergeTab] = fetchChatsDone(@, l)]
       /\ NoteStore("fetchChats", NoEvent)

MergeCreate ==
  /\ UNCHANGED <<mgrVars, syncVars, appVars, now, deltas, render>>
  /\ \E c \in Chats, u \in 0..now :
       /\ tabs' = [tabs EXCEPT ![MergeTab] = createChatDone(@, ChatOf(c, u))]
       /\ NoteStore("createChat", NoEvent)

MergeRename ==
  /\ UNCHANGED <<mgrVars, syncVars, appVars, now, deltas, render>>
  /\ \E c \in Chats :
       /\ tabs' = [tabs EXCEPT ![MergeTab] = renameChat(@, c, now)]
       /\ NoteStore("renameChat", NoEvent)

MergePersist ==
  /\ UNCHANGED <<mgrVars, syncVars, appVars, now, deltas, render>>
  /\ \E c \in Chats :
       /\ tabs' = [tabs EXCEPT ![MergeTab] = persistMessageDone(@, c, now)]
       /\ NoteStore("persistMessage", NoEvent)

MergeNext ==
  \/ MergeTick
  \/ MergeEvent
  \/ MergeFetch
  \/ MergeCreate
  \/ MergeRename
  \/ MergePersist

SpecMerge == MergeInit /\ [][MergeNext]_vars

\* C7: a message_added event applied twice in a row to a tab viewing the
\* event's chat leaves exactly one message with that id in the message list,
\* and a chat_created event for a chat id already in the list changes nothing.
C7_IdempotentMerge ==
  [][ /\ (/\ lastEvent'.op = "event" /\ lastEvent'.twice
          /\ lastEvent'.event.type = "message_added"
          /\ tabs'[MergeTab].activeChatId = lastEvent'.event.chatId)
         => Count(tabs'[MergeTab].messages, lastEvent'.event.message.id) = 1
      /\ (/\ lastEvent'.op = "event"
          /\ lastEvent'.event.type = "chat_created"
          /\ lastEvent'.event.chat.id \in Ids(tabs[MergeTab].chats))
         => tabs' = tabs ]_vars

C7_Witness ==
  /\ lastEvent.op = "event" /\ lastEvent.twice
  /\ lastEvent.event.type = "message_added"
  /\ tabs[MergeTab].activeChatId = lastEvent.event.chatId
  /\ Count(tabs[MergeTab].messages, lastEvent.event.message.id) = 1
  /\ Len(tabs[MergeTab].messages) = 2

\* C8: after a chat_created, chat_updated or message_added event, and after
\* a local create, rename or persist-message, the chat list is sorted by
\* updatedAt, newest first.
C8_SortedAfterListChange ==
  (\/ lastEvent.op \in {"createChat", "renameChat", "persistMessage"}
   \/ (lastEvent.op = "event"
       /\ lastEvent.event.type \in {"chat_created", "chat_updated", "message_added"}))
  => SortedDesc(tabs[MergeTab].chats)

\* C23: for every sync event type and every tab state, applying the same
\* event twice in succession leaves the chat list (contents, updatedAt values
\* and order), the message list, the busy set and the streaming map as they
\* were after the first application.
C23_ReplayChangesNothing ==
  [][ (lastEvent'.op = "event" /\ lastEvent'.twice)
      => /\ tabs'[MergeTab].chats = tabs[MergeTab].chats
         /\ tabs'[MergeTab].messages = tabs[MergeTab].messages
         /\ tabs'[MergeTab].busyChats = tabs[MergeTab].busyChats
         /\ tabs'[MergeTab].streamingMessages = tabs[MergeTab].streamingMessages ]_vars

\* C24: after a chat_updated event carrying chat X the chat list holds
\* exactly one chat with X's id and that chat equals the event's chat,
\* whether or not the id was in the list before.
C24_UpdatedChatInList ==
  [][ (lastEvent'.op = "event" /\ lastEvent'.event.type = "chat_updated")
      => /\ Count(tabs'[MergeTab].chats, lastEvent'.event.chat.id) = 1
         /\ \E i \in 1..Len(tabs'[MergeTab].chats) :
              tabs'[MergeTab].chats[i] = lastEvent'.event.chat ]_vars


(***************************************************************************)
(* SpecStream: one tab's streaming buffers under the deltas of its tasks   *)
(* and the sync events that touch the buffers, the busy set and the list   *)
(***************************************************************************)
TextDeltas == {<<"a">>, <<"b">>}
ToolDeltas == {[toolName |-> "read", partialInput |-> <<>>],
               [toolName |-> "read", partialInput |-> <<"x">>],
               [toolName |-> "write", partialInput |-> <<"y">>]}

StreamEvents ==
  {[type |-> ty, chatId |-> c] : ty \in {"chat_deleted", "task_started", "task_ended"}, c \in Chats}

DeltaCount == Cardinality({x \in Chats \X (1..(MaxDeltas + 1)) : x[2] <= Len(deltas[x[1]])})

\* the tab lists both chats and runs a task on each; it views one of them, or
\* none, and sibling tabs may have marked chats busy
StreamInit ==
  /\ ManagerInit /\ SyncInit /\ AppInit
  /\ now = 0
  /\ lastEvent = [op |-> "none", event |-> NoEvent, twice |-> FALSE]
  /\ deltas = [c \in Chats |-> <<>>]
  /\ render = [messages |-> <<>>, groups |-> <<>>]
  /\ \E a \in Chats \cup {NoChat}, ms \in {<<>>, <<[id |-> "m1"]>>}, b \in SUBSET Chats :
       /\ a = NoChat => ms = <<>>
       /\ tabs = [t \in Tabs |->
                    IF t = MergeTab
                      THEN [EmptyStore EXCEPT
                              !.chats = <<ChatOf("c2", 0), ChatOf("c1", 0)>>,
                              !.activeChatId = a, !.messages = ms, !.busyChats = b,
                              !.runningTaskChatIds = Chats]
                      ELSE EmptyStore]

StreamNext ==
  \/ /\ UNCHANGED <<mgrVars, syncVars, appVars, now, render>>
     /\ DeltaCount < MaxDeltas
     /\ \E c \in Chats, text \in TextDeltas :
          /\ tabs' = [tabs EXCEPT ![MergeTab] = appendStreamingText(@, c, text)]
          /\ deltas' = [deltas EXCEPT ![c] = Append(@, [kind |-> "text", text |-> text])]
          /\ lastEvent' = [op |-> "text", event |-> [type |-> "none", chatId |-> c],
                           twice |-> FALSE]
  \/ /\ UNCHANGED <<mgrVars, syncVars, appVars, now, render>>
     /\ DeltaCount < MaxDeltas
     /\ \E c \in Chats, d \in ToolDeltas :
          /\ tabs' = [tabs EXCEPT ![MergeTab] =
                                  appendStreamingToolUse(@, c, d.toolName, d.partialInput)]
          /\ deltas' = [deltas EXCEPT ![c] =
                          Append(@, [kind |-> "tool", toolName |-> d.toolName,
                                     partialInput |-> d.partialInput])]
          /\ lastEvent' = [op |-> "tool", event |-> [type |-> "none", chatId |-> c],
                           twice |-> FALSE]
  \/ /\ UNCHANGED <<mgrVars, syncVars, appVars, now, render>>
     /\ \E e \in StreamEvents :
          /\ tabs' = [tabs EXCEPT ![MergeTab] = handleSyncEvent(@, e, now)]
          /\ deltas' = IF e.type \in {"chat_deleted", "task_ended"}
                         THEN [deltas EXCEPT ![e.chatId] = <<>>] ELSE deltas
          /\ NoteStore("event", e)

SpecStream == StreamInit /\ [][StreamNext]_vars

\* two deltas belong to one run: both text, or both tool input for one tool
SameRun(a, b) == a.kind = b.kind /\ (a.kind = "tool" => a.toolName = b.toolName)

Payload(d) == IF d.kind = "text" THEN d.text ELSE d.partialInput

RECURSIVE Concat(_)
Concat(ds) == IF ds = <<>> THEN <<>> ELSE Payload(Head(ds)) \o Concat(Tail(ds))

\* the reference coalescing: the first maximal run becomes one entry, then the rest
RECURSIVE Coalesce(_)
Coalesce(ds) ==
  IF ds = <<>> THEN <<>>
  ELSE LET k == CHOOSE n \in 1..Len(ds) :
                  /\ \A i \in 1..n : SameRun(ds[1], ds[i])
                  /\ n = Len(ds) \/ ~SameRun(ds[1], ds[n + 1])
           payload == Concat(SubSeq(ds, 1, k))
           entry == IF ds[1].kind = "text"
                      THEN [type |-> "streaming_text", text |-> payload]
                      ELSE [type |-> "streaming_tool_use", toolUseName |-> ds[1].toolName,
                            partialInput |-> payload]
       IN <<entry>> \o Coalesce(SubSeq(ds, k + 1, Len(ds)))

\* C28: the streaming buffer of every chat is the reference coalescing of the
\* deltas appended for that chat since the buffer was last cleared: one text
\* entry per maximal run of text deltas, one tool entry per maximal run of tool
\* deltas with one tool name, payloads concatenated in order; deltas of other
\* chats have no part in it.
C28_BufferIsCoalescing ==
  \A c \in Chats : tabs[MergeTab].streamingMessages[c] = Coalesce(deltas[c])

\* two text deltas of one chat have become one entry, with a delta of the other
\* chat appended between them
C28_Witness ==
  \E c \in Chats :
    /\ tabs[MergeTab].streamingMessages[c] = <<[type |-> "streaming_text", text |-> <<"a", "b">>]>>
    /\ \A d \in Chats \ {c} : Len(tabs[MergeTab].streamingMessages[d]) = 1
    /\ lastEvent.op = "text" /\ lastEvent.event.chatId = c

\* C26: a chat_deleted event for chat c leaves the chat list without c and
\* otherwise as it was, and c's streaming buffer empty; when c was the active
\* chat, no chat is active and the message list is empty afterwards, otherwise
\* the active chat and the message list are as they were.
C26_ChatDeletedEffect ==
  [][ (lastEvent'.op = "event" /\ lastEvent'.event.type = "chat_deleted")
      => LET c == lastEvent'.event.chatId
             old == tabs[MergeTab]
             new == tabs'[MergeTab]
         IN /\ new.chats = SelectSeq(old.chats, LAMBDA x : x.id # c)
            /\ new.streamingMessages[c] = <<>>
            /\ IF old.activeChatId = c
                 THEN new.activeChatId = NoChat /\ new.messages = <<>>
                 ELSE new.activeChatId = old.activeChatId /\ new.messages = old.messages ]_vars

\* the active chat, with messages shown and deltas buffered, has just been deleted
C26_Witness ==
  /\ lastEvent.op = "event" /\ lastEvent.event.type = "chat_deleted"
  /\ lastEvent.event.chatId \notin Ids(tabs[MergeTab].chats)
  /\ tabs[MergeTab].activeChatId = NoChat
  /\ tabs[MergeTab].messages = <<>>
  /\ tabs[MergeTab].streamingMessages[lastEvent.event.chatId] = <<>>
  /\ \E d \in Chats : tabs[MergeTab].streamingMessages[d] # <<>>

\* C27: a task_started event for chat c adds c to the busy set and leaves the
\* rest of the store as it was; a task_ended event for c removes c from the
\* busy set, empties c's streaming buffer and leaves the buffers of the other
\* chats, the running set, the chat list, the message list and the active chat
\* as they were.
C27_TaskEventEffect ==
  [][ /\ (lastEvent'.op = "event" /\ lastEvent'.event.type = "task_started")
         => tabs'[MergeTab] =
              [tabs[MergeTab] EXCEPT !.busyChats = @ \cup {lastEvent'.event.chatId}]
      /\ (lastEvent'.op = "event" /\ lastEvent'.event.type = "task_ended")
         => tabs'[MergeTab] =
              [tabs[MergeTab] EXCEPT
                 !.busyChats = @ \ {lastEvent'.event.chatId},
                 !.streamingMessages =
                    [d \in Chats |-> IF d = lastEvent'.event.chatId THEN <<>> ELSE @[d]]] ]_vars

\* task_ended has just emptied the buffer of a busy chat while the other chat
\* keeps its deltas
C27_Witness ==
  /\ lastEvent.op = "event" /\ lastEvent.event.type = "task_ended"
  /\ tabs[MergeTab].streamingMessages[lastEvent.event.chatId] = <<>>
  /\ lastEvent.event.chatId \notin tabs[MergeTab].busyChats
  /\ \E d \in Chats : tabs[MergeTab].streamingMessages[d] # <<>>
  /\ tabs[MergeTab].busyChats # {}

(***************************************************************************)
(* SpecTabs: two tabs of one session against the server                    *)
(***************************************************************************)
\* both tabs have loaded against an empty database, their sync sockets are
\* open and each has read its connected frame
TabConn(t) == IF t = "t1" THEN 1 ELSE 2

TabsInit ==
  /\ ManagerInit /\ StoreInit
  /\ syncConnections =
       registerSyncConnection(registerSyncConnection(<<>>, TabSession, 1), TabSession, 2)
  /\ connectionCounter = 2
  /\ connSession = [c \in ConnIds |-> IF c <= 2 THEN TabSession ELSE "none"]
  /\ wsState = [c \in ConnIds |-> IF c <= 2 THEN "open" ELSE "none"]
  /\ wsOut = [c \in ConnIds |-> <<>>]
  /\ lastSend = [op |-> "init", sessionId |-> "none", event |-> "none", exclude |-> NoConn]
  /\ client = [t \in Tabs |-> NewClient(TabConn(t), TRUE)]
  /\ flows = [t \in Tabs |-> [c \in Chats |-> IdleFlow]]
  /\ storage = [t \in Tabs |-> NewStorage]
  /\ dbChats = <<>>
  /\ dbMessages = <<>>
  /\ busySince = [t \in Tabs |-> {}]
  /\ awayTask = [t \in Tabs |-> {}]
  /\ returned = [t \in Tabs |-> {}]
  /\ creator = [c \in Chats |-> "none"]
  /\ gestures = 0
  /\ lastTab = [op |-> "init", tab |-> "none", chatId |-> NoChat]


TabsNext ==
  \/ \E t \in Tabs : TabRead(t)
  \/ \E t \in Tabs : TabNewChat(t)
  \/ \E t \in Tabs, c \in Chats : TabSelect(t, c)
  \/ \E t \in Tabs : TabSubmit(t)
  \/ \E t \in Tabs, c \in Chats : TabPersist(t, c)
  \/ \E t \in Tabs, c \in Chats : TabStartTask(t, c)
  \/ \E a \in AgentIds : AgentFinish(a)
  \/ \E t \in Tabs, c \in Chats : TabStreamEnd(t, c)
  \/ \E t \in Tabs : TabReload(t)
  \/ \E t \in Tabs : TabCheckRunning(t)

SpecTabs == TabsInit /\ [][TabsNext]_vars


\* C34: a tab's pending-message record for a chat is written only while the
\* chat is in the tab's running-task set, and when the chat leaves the running
\* set of a page that stays open (the task completed, failed to start, errored
\* or was cancelled) the tab's storage holds no record for the chat.
C34_PendingOnlyWhileRunning ==
  [][ \A t \in Tabs, c \in Chats :
        /\ (storage[t].pending[c] = "none" /\ storage'[t].pending[c] # "none")
             => c \in tabs'[t].runningTaskChatIds
        /\ (/\ c \in tabs[t].runningTaskChatIds
            /\ c \notin tabs'[t].runningTaskChatIds
            /\ client[t].checked /\ client'[t].checked)
             => storage'[t].pending[c] = "none" ]_vars

\* C2: in every reachable state, for each chat at most one tab of the session
\* has the chat in its running-task set.
C2_OneStreamingTab ==
  \A c \in Chats : Cardinality({t \in Tabs : c \in tabs[t].runningTaskChatIds}) <= 1

\* C4: when a tab has switched away from a chat whose task was running in it,
\* then for as long as the task runs the chat's entry stays cached and is
\* flagged pending (so that the sweep after the task removes it).
C4_PendingWhileAway ==
  \A t \in Tabs, c \in Chats :
    (/\ c \in awayTask[t]
     /\ flows[t][c].pc = "stream"
     /\ flows[t][c].agent \in agentRunning)
    => /\ chatAgents[c] = flows[t][c].agent
       /\ c \in pendingDestruction

C13_ReclaimRegisters ==
  [][ \A t \in Tabs, c \in Chats :
        (/\ ~client[t].checked /\ client'[t].checked
         /\ flows[t][c].pc = "idle"
         /\ chatAgents[c] # NoAgent /\ chatAgents[c] \in agentRunning)
        => IF storage[t].pending[c] # "none"
             THEN /\ flows'[t][c].pc = "stream"
                  /\ c \in tabs'[t].runningTaskChatIds
                  /\ taskHandlers'[c] # NoConn
                  /\ taskHandlers'[c] \in {client'[t].sock, client'[t].connectionId}
                  /\ wsState'[taskHandlers'[c]] = "open"
             ELSE /\ c \in tabs'[t].busyChats
                  /\ c \notin tabs'[t].runningTaskChatIds
                  /\ flows'[t][c].pc = "idle" ]_vars


(***************************************************************************)
(* SpecCancel: tab t1 runs tasks and cancels them, tab t2 watches and      *)
(* cancels remotely; sync sockets are reopened after the running set moved *)
(***************************************************************************)
Owner == "t1"
Watcher == "t2"

\* both tabs have loaded against an empty database; the watcher's sync socket is
\* open and it has read its connected frame, the owner's is not open yet
CancelInit ==
  /\ ManagerInit /\ StoreInit
  /\ syncConnections = registerSyncConnection(<<>>, TabSession, 1)
  /\ connectionCounter = 1
  /\ connSession = [c \in ConnIds |-> IF c = 1 THEN TabSession ELSE "none"]
  /\ wsState = [c \in ConnIds |-> IF c = 1 THEN "open" ELSE "none"]
  /\ wsOut = [c \in ConnIds |-> <<>>]
  /\ lastSend = [op |-> "init", sessionId |-> "none", event |-> "none", exclude |-> NoConn]
  /\ client = [t \in Tabs |-> IF t = Watcher THEN NewClient(1, TRUE) ELSE NewClient(NoConn, TRUE)]
  /\ flows = [t \in Tabs |-> [c \in Chats |-> IdleFlow]]
  /\ storage = [t \in Tabs |-> NewStorage]
  /\ dbChats = <<>>
  /\ dbMessages = <<>>
  /\ busySince = [t \in Tabs |-> {}]
  /\ awayTask = [t \in Tabs |-> {}]
  /\ returned = [t \in Tabs |-> {}]
  /\ creator = [c \in Chats |-> "none"]
  /\ gestures = 0
  /\ lastTab = [op |-> "init", tab |-> "none", chatId |-> NoChat]

CancelNext ==
  \/ TabConnect(Owner)
  \/ \E t \in Tabs : TabRead(t)
  \/ TabNewChat(Owner)
  \/ \E t \in Tabs, c \in Chats : TabSelect(t, c)
  \/ TabSubmit(Owner)
  \/ \E c \in Chats : TabPersist(Owner, c)
  \/ \E c \in Chats : TabStartTask(Owner, c)
  \/ \E a \in AgentIds : AgentFinish(a)
  \/ \E c \in Chats : TabStreamEnd(Owner, c)
  \/ \E ok \in BOOLEAN : TabCancel(Owner, ok)
  \/ TabCancelRemote(Watcher)
  \/ TabReload(Owner)
  \/ TabCheckRunning(Owner)

SpecCancel == CancelInit /\ [][CancelNext]_vars

\* the socket holds a frame of this type for the chat
HoldsFrame(q, type, chatId) ==
  \E i \in 1..Len(q) : q[i].type = type /\ q[i].chatId = chatId

\* C12: right after a tab's remote cancel of chat c has found no running task
\* on the server, with no tab holding a task channel for c, the requesting tab
\* either no longer has c in its busy set or has task_ended for c on its socket,
\* and so has every other connected tab.
C12_StaleBusyCleared ==
  (/\ lastTab.op = "cancelRemote"
   /\ ~lastTab.found
   /\ \A u \in Tabs : flows[u][lastTab.chatId].pc = "idle")
  => \A u \in Tabs :
       (client[u].sock # NoConn /\ lastTab.chatId \in tabs[u].busyChats)
       => HoldsFrame(wsOut[client[u].sock], "task_ended", lastTab.chatId)


\* C11: when a tab requests the remote cancel of chat c while another tab, whose
\* sync socket is open, streams c's task, task_cancel_requested for c is put on
\* the socket of that tab and of no tab that does not stream c; and when a tab
\* streaming c handles the frame, the task channel it cancels is c's, the
\* message whose deletion it requests is the triggering message of c, and the
\* other tabs' stores and channels stay as they were.
C11_RemoteCancelOwnerOnly ==
  /\ [][ (/\ lastTab'.op = "cancelRemote" /\ lastTab'.found
          /\ \E o \in Tabs : flows[o][lastTab'.chatId].pc = "stream")
          => \A u \in Tabs \ {lastTab'.tab} :
               client[u].sock # NoConn
               => (HoldsFrame(wsOut'[client[u].sock], "task_cancel_requested", lastTab'.chatId)
                   <=> flows[u][lastTab'.chatId].pc = "stream") ]_vars
  /\ [][ (/\ lastTab'.op = "cancel" /\ lastTab'.remote
          /\ flows[lastTab'.tab][lastTab'.chatId].pc = "stream")
         => /\ lastTab'.cancelled = lastTab'.chatId
            /\ lastTab'.deleted = storage[lastTab'.tab].pending[lastTab'.chatId]
            /\ \A u \in Tabs \ {lastTab'.tab} :
                 tabs'[u] = tabs[u] /\ flows'[u] = flows[u] ]_vars

\* C18: when a tab cancels, locally or on a remote request, the task it runs on
\* chat c, whose triggering user message m is the one of its pending-message
\* record for c: the deletion it requests is that of m, m leaves its message
\* list, m is put back in the input exactly when c is the active chat, c's
\* streaming accumulator and the record for c are cleared, and m is gone from
\* the store when the delete request succeeded.
C18_CancelToEdit ==
  [][ (/\ lastTab'.op = "cancel"
       /\ flows[lastTab'.tab][lastTab'.chatId].pc = "stream"
       /\ storage[lastTab'.tab].pending[lastTab'.chatId] # "none")
      => LET t == lastTab'.tab
             c == lastTab'.chatId
             m == storage[t].pending[c]
         IN /\ lastTab'.deleted = m
            /\ \A i \in 1..Len(tabs'[t].messages) : tabs'[t].messages[i].id # m
            /\ lastTab'.restored = (IF tabs[t].activeChatId = c THEN m ELSE "none")
            /\ tabs'[t].streamingMessages[c] = <<>>
            /\ storage'[t].pending[c] = "none"
            /\ lastTab'.ok => \A i \in 1..Len(dbMessages') : dbMessages'[i].id # m ]_vars

\* C31: in every reachable state, for a tab that streams the task of chat c
\* (its task-started notification has been handled), the handler registry maps
\* c to a connection that is the tab's own sync socket, open and registered for
\* the session; and when the tab's stream of c ends and its task-ended
\* notification is handled, c has no handler entry.
C31_HandlerIsOwnersSocket ==
  /\ [](\A t \in Tabs, c \in Chats :
          flows[t][c].pc = "stream"
          => /\ taskHandlers[c] # NoConn
             /\ taskHandlers[c] = client[t].sock
             /\ wsState[taskHandlers[c]] = "open"
             /\ taskHandlers[c] \in Bucket(syncConnections, TabSession))
  /\ [][ \A t \in Tabs, c \in Chats :
           (/\ flows[t][c].pc = "stream" /\ flows'[t][c].pc = "idle"
            /\ c \in tabs[t].runningTaskChatIds
            /\ client[t].checked /\ client'[t].checked)
           => taskHandlers'[c] = NoConn ]_vars

\* C39: when a tab streams tasks on two chats a and b and cancels a's, locally
\* or on a remote request, the cancel goes to a's task channel and the deletion
\* requested is that of a's triggering message; b's task keeps running, b's
\* triggering message stays in the store and in the list shown, and b's
\* pending-message record stays as it was.
C39_CancelLeavesOtherChat ==
  [][ \A b \in Chats :
        LET t == lastTab'.tab
            a == lastTab'.chatId
        IN (/\ lastTab'.op = "cancel"
            /\ b # a
            /\ flows[t][a].pc = "stream" /\ flows[t][b].pc = "stream"
            /\ storage[t].pending[a] # "none" /\ storage[t].pending[b] # "none")
           => /\ lastTab'.cancelled = a
              /\ lastTab'.deleted = storage[t].pending[a]
              /\ flows[t][b].agent \in agentRunning => flows[t][b].agent \in agentRunning'
              /\ storage[t].pending[b] \in Ids(dbMessages)
                   => storage[t].pending[b] \in Ids(dbMessages')
              /\ storage[t].pending[b] \in Ids(tabs[t].messages)
                   => storage[t].pending[b] \in Ids(tabs'[t].messages)
              /\ storage'[t].pending[b] = storage[t].pending[b] ]_vars

(***************************************************************************)
(* SpecView: tab t1 sends messages, switches chats and cancels while tab   *)
(* t2 follows on its sync socket; no request fails on the way              *)
(***************************************************************************)
ViewNext ==
  \/ TabConnect(Owner)
  \/ \E t \in Tabs : TabRead(t)
  \/ TabNewChat(Owner)
  \/ \E t \in Tabs, c \in Chats : TabSelect(t, c)
  \/ TabSubmit(Owner)
  \/ \E c \in Chats : TabPersist(Owner, c)
  \/ \E c \in Chats : TabStartTask(Owner, c)
  \/ \E a \in AgentIds : AgentFinish(a)
  \/ \E c \in Chats : TabStreamEnd(Owner, c)
  \/ TabCancel(Owner, TRUE)

SpecView == CancelInit /\ [][ViewNext]_vars

\* C17: whenever no request, task or frame is in flight, every tab whose sync
\* socket is open and has delivered its connected frame lists exactly the chats
\* of the store, each once, and, when it views a chat, shows exactly the
\* messages the store holds for that chat, each once and in the store's order.
C17_ViewsConverge ==
  (/\ \A t \in Tabs, c \in Chats : flows[t][c].pc = "idle"
   /\ \A t \in Tabs : client[t].checked
   /\ \A k \in ConnIds : wsOut[k] = <<>>
   /\ agentRunning = {})
  => \A t \in Tabs :
       (client[t].sock # NoConn /\ client[t].connectionId = client[t].sock)
       => /\ Ids(tabs[t].chats) = Ids(dbChats)
          /\ \A c \in Chats : Count(tabs[t].chats, c) <= 1
          /\ tabs[t].activeChatId # NoChat
             => [i \in 1..Len(tabs[t].messages) |-> tabs[t].messages[i].id]
                = [i \in 1..Len(SelectSeq(dbMessages,
                                           LAMBDA m : m.chatId = tabs[t].activeChatId))
                     |-> SelectSeq(dbMessages,
                                   LAMBDA m : m.chatId = tabs[t].activeChatId)[i].id]


(***************************************************************************)
(* SpecJoin: two tabs that load, open their sync sockets and create chats  *)
(***************************************************************************)
JoinNext ==
  \/ \E t \in Tabs : TabConnect(t)
  \/ \E t \in Tabs : TabRead(t)
  \/ \E t \in Tabs : TabNewChat(t)
  \/ \E t \in Tabs, c \in Chats : TabSelect(t, c)
  \/ \E t \in Tabs : TabReload(t)

SpecJoin == Init /\ [][JoinNext]_vars

\* the socket holds a chat_created frame for the chat
HoldsCreated(q, chatId) ==
  \E i \in 1..Len(q) : q[i].type = "chat_created" /\ q[i].chat.id = chatId

\* C9: no tab ever lists a chat twice, and when tab t creates chat c, t lists c
\* once and its own sync socket gets no chat_created for c, while the socket of
\* every other tab that is connected gets chat_created for c.
C9_CreatedOnceNotEchoed ==
  /\ [](\A t \in Tabs, c \in Chats : Count(tabs[t].chats, c) <= 1)
  /\ [][ \A t \in Tabs, c \in Chats :
           (creator[c] = "none" /\ creator'[c] = t)
           => /\ Count(tabs'[t].chats, c) = 1
              /\ client[t].sock # NoConn => ~HoldsCreated(wsOut'[client[t].sock], c)
              /\ \A u \in Tabs \ {t} :
                   client[u].sock # NoConn => HoldsCreated(wsOut'[client[u].sock], c) ]_vars


(***************************************************************************)
(* SpecBusy: one tab, and the task frames its sibling tabs cause            *)
(***************************************************************************)
BusyTab == "t2"

\* ws.onmessage with a task_started or task_ended frame that a sibling tab's
\* request has caused, for any chat there is
BusyEvent ==
  /\ \E c \in Ids(dbChats), type \in {"task_started", "task_ended"} :
       SetWorld(BusyTab, applySyncEvent(World(BusyTab), [type |-> type, chatId |-> c], now))
  /\ lastTab' = OtherOp
  /\ UNCHANGED creator
  /\ UNCHANGED gestures


BusyNext ==
  \/ BusyEvent
  \/ TabNewChat(BusyTab)
  \/ \E c \in Chats : TabSelect(BusyTab, c)
  \/ TabSubmit(BusyTab)
  \/ \E c \in Chats : TabPersist(BusyTab, c)
  \/ \E c \in Chats : TabStartTask(BusyTab, c)
  \/ \E a \in AgentIds : AgentFinish(a)
  \/ \E c \in Chats : TabStreamEnd(BusyTab, c)

SpecBusy == Init /\ [][BusyNext]_vars

\* C10: from the task_started a tab applies for a chat until the task_ended it
\* applies for it, the chat is in the tab's busy set, and a submit of the tab on
\* that chat persists no message, opens no task channel (no agent is built or
\* started, no flow of the tab moves) and leaves the tab's store, its running
\* set included, as it was.
C10_BusyBlocksSubmit ==
  /\ [](\A t \in Tabs, c \in Chats : c \in busySince[t] => c \in tabs[t].busyChats)
  /\ [][ (/\ lastTab'.op = "submit"
          /\ lastTab'.chatId # NoChat
          /\ lastTab'.chatId \in busySince[lastTab'.tab])
         => /\ dbMessages' = dbMessages
            /\ dbChats' = dbChats
            /\ flows' = flows
            /\ tabs' = tabs
            /\ storage' = storage
            /\ UNCHANGED <<chatAgents, agentCount, agentChat, agentRunning, taskHandlers>> ]_vars

\* a submit on a chat that is busy and not running in the tab has just returned
\* at the guard
C10_Witness ==
  /\ lastTab.op = "submit"
  /\ lastTab.chatId # NoChat
  /\ lastTab.chatId \in busySince[lastTab.tab]
  /\ lastTab.chatId \notin tabs[lastTab.tab].runningTaskChatIds
  /\ flows[lastTab.tab][lastTab.chatId].pc = "idle"


(***************************************************************************)
(* SpecCrash: the owner's tab starts tasks and may close without sending   *)
(* task-ended; the watcher reads its socket and presses stop on a busy chat *)
(***************************************************************************)
\* the page of tab t is open: loadPage leaves checked FALSE until
\* checkRunningTasks has run, and no page is loaded again here
PageOpen(t) == client[t].checked

CrashNext ==
  \/ \E t \in Tabs : PageOpen(t) /\ TabRead(t)
  \/ PageOpen(Owner) /\ TabNewChat(Owner)
  \/ \E c \in Chats : TabSelect(Watcher, c)
  \/ PageOpen(Owner) /\ TabSubmit(Owner)
  \/ \E c \in Chats : PageOpen(Owner) /\ TabPersist(Owner, c)
  \/ \E c \in Chats : PageOpen(Owner) /\ TabStartTask(Owner, c)
  \/ \E a \in AgentIds : AgentFinish(a)
  \/ \E c \in Chats : PageOpen(Owner) /\ TabStreamEnd(Owner, c)
  \/ PageOpen(Owner) /\ TabReload(Owner)
  \/ TabCancelRemote(Watcher)

\* the watcher's socket handler runs whenever a frame is there, and a task
\* on the server comes to its end
SpecCrash ==
  /\ TabsInit /\ [][CrashNext]_vars
  /\ WF_vars(TabRead(Watcher))
  /\ WF_vars(\E a \in AgentIds : AgentFinish(a))

\* C25: once the owner's tab has closed without task-ended for a chat it was
\* streaming and the watcher, which has the chat marked busy, has sent a cancel
\* request for it, the watcher eventually no longer has the chat in its busy
\* set (and so can submit on it).
C25_StaleOwnershipResolved ==
  \A c \in Chats :
    (/\ ~PageOpen(Owner)
     /\ lastTab.op = "cancelRemote" /\ lastTab.tab = Watcher /\ lastTab.chatId = c)
    ~> (c \notin tabs[Watcher].busyChats)


(***************************************************************************)
(* SpecGroup: the message view of a tab as messages are added to it        *)
(***************************************************************************)
\* content blocks: text, a tool invocation, its result, and the result of an
\* invocation that no message shown holds
TextBlock == [type |-> "text", toolUseId |-> "none"]
UseBlock == [type |-> "tool_use", toolUseId |-> "u1"]
ResultBlock == [type |-> "tool_result", toolUseId |-> "u1"]
OrphanBlock == [type |-> "tool_result", toolUseId |-> "u2"]

Contents ==
  {<<>>, <<TextBlock>>, <<UseBlock>>, <<ResultBlock>>, <<OrphanBlock>>,
   <<ResultBlock, ResultBlock>>, <<ResultBlock, OrphanBlock>>, <<ResultBlock, TextBlock>>,
   <<UseBlock, ResultBlock>>}

Roles == {"user", "assistant"}

\* buildToolMaps: the ids of the tool_use blocks of all messages (the map of
\* tool results it also returns is not read by the grouping)
buildToolMaps(messages) ==
  [toolUseIdSet |->
     UNION {{messages[i].content[j].toolUseId :
               j \in {k \in 1..Len(messages[i].content) :
                        messages[i].content[k].type = "tool_use"}} :
            i \in 1..Len(messages)}]

\* hasVisibleContent: some block is not a tool_result of a known invocation
hasVisibleContentAnyBlock(msg, toolUseIdSet) ==
  \E j \in 1..Len(msg.content) : TRUE

hasVisibleContent(msg, toolUseIdSet) ==
  \E j \in 1..Len(msg.content) :
    IF msg.content[j].type = "tool_result"
      THEN msg.content[j].toolUseId \notin toolUseIdSet
      ELSE TRUE

\* the body of the loop of groupConsecutiveMessages
groupStep(groups, msg, toolUseIdSet) ==
  IF ~hasVisibleContent(msg, toolUseIdSet) THEN groups
  ELSE LET hasOnlyToolResult ==
             \A j \in 1..Len(msg.content) : msg.content[j].type = "tool_result"
           effectiveRole == IF hasOnlyToolResult THEN "assistant" ELSE msg.role
       IN IF groups # <<>> /\ groups[Len(groups)].role = effectiveRole
            THEN [groups EXCEPT ![Len(groups)].messages = Append(@, msg)]
            ELSE Append(groups, [id |-> msg.id, role |-> effectiveRole, messages |-> <<msg>>])

RECURSIVE groupFrom(_, _, _)
groupFrom(groups, messages, toolUseIdSet) ==
  IF messages = <<>> THEN groups
  ELSE groupFrom(groupStep(groups, Head(messages), toolUseIdSet), Tail(messages),
                 toolUseIdSet)

groupConsecutiveMessages(messages, toolUseIdSet) == groupFrom(<<>>, messages, toolUseIdSet)

\* a message is added to the messages shown and the view is computed again:
\* the useMemo pair buildToolMaps, groupConsecutiveMessages
GroupAdd ==
  /\ Len(render.messages) < MaxShown
  /\ \E role \in Roles, content \in Contents :
       LET msg == [id |-> Len(render.messages) + 1, role |-> role, content |-> content]
           messages == Append(render.messages, msg)
       IN render' = [messages |-> messages,
                     groups |-> groupConsecutiveMessages(messages, buildToolMaps(messages).toolUseIdSet)]
  /\ UNCHANGED <<mgrVars, syncVars, appVars, tabs, now, lastEvent, deltas>>

SpecGroup == Init /\ [][GroupAdd]_vars

\* the claim's words, computed from the messages alone
Omitted(msg, ids) ==
  \A j \in 1..Len(msg.content) :
    msg.content[j].type = "tool_result" /\ msg.content[j].toolUseId \in ids

Effective(msg) ==
  IF \A j \in 1..Len(msg.content) : msg.content[j].type = "tool_result"
    THEN "assistant" ELSE msg.role

RECURSIVE Flatten(_)
Flatten(groups) ==
  IF groups = <<>> THEN <<>> ELSE Head(groups).messages \o Flatten(Tail(groups))

\* C29: the groups hold, in order, exactly the messages that are not made only
\* of tool-result blocks whose invocation id is in the tool-use id set; every
\* message of a group has the group's role as its effective role (assistant
\* for a message made solely of tool-result blocks, the stored role otherwise);
\* no group is empty and no two adjacent groups have the same role.
C29_GroupsAreMaximalRuns ==
  LET ids == buildToolMaps(render.messages).toolUseIdSet
      groups == render.groups
  IN /\ Flatten(groups) = SelectSeq(render.messages, LAMBDA m : ~Omitted(m, ids))
     /\ \A g \in 1..Len(groups) :
          /\ groups[g].messages # <<>>
          /\ \A k \in 1..Len(groups[g].messages) :
               Effective(groups[g].messages[k]) = groups[g].role
     /\ \A g \in 1..(Len(groups) - 1) : groups[g].role # groups[g + 1].role

\* three messages: one holding only a matched result is omitted, one holding
\* only an orphan result and stored as user forms an assistant group, and the
\* third forms a user group
C29_Witness ==
  /\ Len(render.messages) = 3
  /\ \E i \in 1..3 :
       /\ render.messages[i].content # <<>>
       /\ Omitted(render.messages[i], buildToolMaps(render.messages).toolUseIdSet)
  /\ \E g \in 1..Len(render.groups) :
       /\ render.groups[g].role = "assistant"
       /\ render.groups[g].messages[1].role = "user"
  /\ Len(render.groups) = 2
(***************************************************************************)
(* SpecSeed: getOrCreateAgent over a chat table that holds messages, called *)
(* with and without an excludeMessageId                                     *)
(***************************************************************************)
SeedInit ==
  /\ ManagerInit /\ SyncInit /\ StoreInit
  /\ client = [t \in Tabs |-> NewClient(NoConn, TRUE)]
  /\ flows = [t \in Tabs |-> [c \in Chats |-> IdleFlow]]
  /\ storage = [t \in Tabs |-> NewStorage]
  /\ dbChats = <<ChatOf("c1", 0), ChatOf("c2", 0)>>
  /\ dbMessages = <<>>
  /\ busySince = [t \in Tabs |-> {}]
  /\ awayTask = [t \in Tabs |-> {}]
  /\ returned = [t \in Tabs |-> {}]
  /\ creator = [c \in Chats |-> "none"]
  /\ gestures = 0
  /\ lastTab = [op |-> "init", tab |-> "none", chatId |-> NoChat]

\* ChatService.addMessage: the row is inserted and the chat is touched
SeedPersist ==
  /\ \E c \in Chats, id \in MsgIds :
       /\ id \notin Ids(dbMessages)
       /\ dbMessages' = Append(dbMessages, [id |-> id, chatId |-> c])
       /\ dbChats' = Touch(dbChats, c, now)
  /\ UNCHANGED <<chatAgents, pendingDestruction, taskHandlers, agentCount, agentChat,
                 agentRunning, calls, syncVars, storeVars, client, flows, storage,
                 busySince, awayTask, returned, creator, gestures, lastTab>>
  /\ Note("persist", NoChat)

SeedBegin ==
  /\ \E k \in Calls, c \in Chats, x \in MsgIds \cup {NoExclude} :
       getOrCreateAgentBegin(k, c, x) /\ Note("begin", c)
  /\ UNCHANGED <<syncVars, storeVars, appVars>>

SeedNext ==
  \/ SeedPersist \/ SeedBegin
  \/ MgrConstruct \/ MgrFinish \/ MgrReturn

SpecSeed == SeedInit /\ [][SeedNext]_vars

\* sub lists members of seq, each once, in the order seq has them
InOrderOf(sub, seq) ==
  /\ \A i, j \in DOMAIN sub : i < j =>
       \E p, q \in DOMAIN seq : p < q /\ seq[p] = sub[i] /\ seq[q] = sub[j]
  /\ \A i \in DOMAIN sub : \E p \in DOMAIN seq : seq[p] = sub[i]

\* C35: a getOrCreateAgent call that finds a cached entry returns that entry,
\* reads no history and constructs no agent, and leaves the cache as it was; a
\* call that finds none reads the chat's persisted messages, and the agent it
\* constructs is seeded with exactly those messages, in creation order, without
\* the one whose id is excludeMessageId; the excluded message is never in the seed.
C35_SeedExcludesTrigger ==
  [][ \A k \in Calls :
        /\ (calls[k].pc = "idle" /\ calls'[k].pc # "idle") =>
             LET c == calls'[k].chatId IN
               IF chatAgents[c] # NoAgent
                 THEN /\ calls'[k].pc = "done"
                      /\ calls'[k].entry = chatAgents[c]
                      /\ calls'[k].history = <<>> /\ calls'[k].seed = <<>>
                      /\ UNCHANGED <<chatAgents, agentCount, agentChat>>
                 ELSE /\ calls'[k].pc = "fetch"
                      /\ Ids(calls'[k].history) =
                           {dbMessages[i].id : i \in {j \in DOMAIN dbMessages :
                                                       dbMessages[j].chatId = c}}
                      /\ InOrderOf(calls'[k].history, dbMessages)
        /\ (calls[k].pc = "fetch" /\ calls'[k].pc = "create") =>
             LET rows == [i \in DOMAIN calls[k].history |-> calls[k].history[i].id]
                 seed == calls'[k].seed
             IN /\ {seed[i] : i \in DOMAIN seed} =
                     {rows[i] : i \in DOMAIN rows} \ {calls[k].exclude}
                /\ Len(seed) = Cardinality({seed[i] : i \in DOMAIN seed})
                /\ InOrderOf(seed, rows)
                /\ \A i \in DOMAIN seed : seed[i] # calls[k].exclude
                /\ agentCount' = agentCount + 1 ]_vars

\* one call is constructing an agent from a history that holds the excluded
\* message and another one, while the call before it, on another chat, was
\* answered from the cache
C35_Witness ==
  \E k \in Calls : \E j \in Calls \ {k} :
    /\ calls[k].pc = "create"
    /\ calls[k].exclude \in Ids(calls[k].history)
    /\ Len(calls[k].seed) >= 1
    /\ lastCall.op = "begin" /\ lastCall.chatId = calls[j].chatId
    /\ calls[j].chatId # calls[k].chatId
    /\ calls[j].pc = "done" /\ calls[j].exclude # NoExclude

(***************************************************************************)
(* SpecEcho: tab t1 sends messages while the sync sockets are opened and   *)
(* tab t2 follows; the request that persists a message and its answer are  *)
(* two steps                                                               *)
(***************************************************************************)
\* handleSubmit, line 444: POST /chats/:id/messages has been handled by the
\* server (row inserted, message_added broadcast); the answer is on its way
TabPersistSent(t, chatId) ==
  /\ flows[t][chatId].pc = "persist"
  /\ LET w == World(t) IN
       SetWorld(t, [routeAddMessage(w, chatId, now) EXCEPT
                      !.fl[chatId] = [pc |-> "saved", agent |-> NoAgent,
                                      message |-> NextMsgId(w)]])
  /\ lastTab' = OtherOp
  /\ UNCHANGED creator
  /\ UNCHANGED gestures

\* handleSubmit, lines 447-459: the answer is in; addMessage, the ref and
\* savePendingMessage
TabPersistAnswered(t, chatId) ==
  /\ flows[t][chatId].pc = "saved"
  /\ LET w == World(t)
         savedMessage == [id |-> flows[t][chatId].message]
         w1 == savePendingMessage(addMessage(w, savedMessage), chatId, savedMessage.id)
     IN SetWorld(t, [w1 EXCEPT !.fl[chatId] = [pc |-> "start", agent |-> NoAgent],
                               !.cl.pendingRef = savedMessage.id])
  /\ lastTab' = OtherOp
  /\ UNCHANGED creator
  /\ UNCHANGED gestures

EchoNext ==
  \/ \E t \in Tabs : TabConnect(t)
  \/ \E t \in Tabs : TabRead(t)
  \/ \E c \in Chats : TabSelect(Watcher, c)
  \/ TabSubmit(Owner)
  \/ \E c \in Chats : TabPersistSent(Owner, c)
  \/ \E c \in Chats : TabPersistAnswered(Owner, c)
  \/ \E c \in Chats : TabStartTask(Owner, c)
  \/ \E a \in AgentIds : AgentFinish(a)
  \/ \E c \in Chats : TabStreamEnd(Owner, c)

SpecEcho == Init /\ [][EchoNext]_vars

\* C36: in every reachable state no tab's message list holds two entries with
\* the same message id.
C36_NoDuplicateMessageId ==
  \A t \in Tabs : \A i, j \in DOMAIN tabs[t].messages :
    tabs[t].messages[i].id = tabs[t].messages[j].id => i = j

(***************************************************************************)
(* SpecResync: the tabs create and open chats while their sync sockets are *)
(* opened, lost and opened again                                           *)
(***************************************************************************)
\* ws.onclose of the tab's sync socket without close() having been called: the
\* server drops the registration, the frames not yet read are gone, and the
\* reconnect timer is armed (TabConnect is the timer firing)
TabSocketLost(t) ==
  /\ client[t].sock # NoConn
  /\ LET w == World(t) IN
       SetWorld(t, [w EXCEPT !.reg = unregisterSyncConnection(@, TabSession, w.cl.sock),
                             !.state[w.cl.sock] = "closed",
                             !.out[w.cl.sock] = <<>>,
                             !.cl.sock = NoConn])
  /\ lastTab' = OtherOp
  /\ UNCHANGED creator
  /\ UNCHANGED gestures

ResyncNext ==
  \/ \E t \in Tabs : TabConnect(t)
  \/ \E t \in Tabs : TabRead(t)
  \/ \E t \in Tabs : TabSocketLost(t)
  \/ \E t \in Tabs : TabNewChat(t)
  \/ \E t \in Tabs, c \in Chats : TabSelect(t, c)

SpecResync == Init /\ [][ResyncNext]_vars

\* C37: when a tab that had a sync connection before has processed the connected
\* frame of a new one, has read every frame of its socket and has no request in
\* flight, its chat list holds the chats of the store and its message list the
\* messages of its active chat.
C37_ReconnectResyncs ==
  [][ \A t \in Tabs :
        (/\ client[t].connectionId # NoConn
         /\ client'[t].connectionId # client[t].connectionId
         /\ client'[t].sock # NoConn
         /\ wsOut'[client'[t].sock] = <<>>
         /\ \A c \in Chats : flows'[t][c].pc \in {"idle", "stream"})
        => /\ Ids(tabs'[t].chats) = Ids(dbChats')
           /\ tabs'[t].activeChatId # NoChat
                => Ids(tabs'[t].messages) =
                     Ids(getChatMessages([dbChats |-> dbChats', dbMessages |-> dbMessages'],
                                         tabs'[t].activeChatId)) ]_vars

(***************************************************************************)
(* SpecAbort: tab t1 runs tasks whose event stream can end abnormally,     *)
(* tab t2 follows on its sync socket                                       *)
(***************************************************************************)
\* handleTaskEvents, case "text": a delta of the task's reply (one per stream)
TabStreamText(t, chatId) ==
  /\ flows[t][chatId].pc = "stream"
  /\ tabs[t].streamingMessages[chatId] = <<>>
  /\ SetWorld(t, [World(t) EXCEPT !.st = appendStreamingText(@, chatId, "a")])
  /\ lastTab' = OtherOp
  /\ UNCHANGED creator
  /\ UNCHANGED gestures

\* setupWebSocketHandlers: ws.onerror, a frame that does not parse, or ws.onclose
\* with a code other than 1000 makes the observable fail while the task runs;
\* the loop of handleTaskEvents throws, the catch block logs and the finally
\* block runs. What the agent does with its task when the channel goes is code
\* of @zypher/http: the task goes on or it is stopped.
TabStreamError(t, chatId) ==
  /\ flows[t][chatId].pc = "stream"
  /\ flows[t][chatId].agent \in agentRunning
  /\ \E stopped \in BOOLEAN :
       LET w == World(t)
           w1 == IF stopped
                   THEN [w EXCEPT !.agentRunning = @ \ {w.fl[chatId].agent}]
                   ELSE w
       IN SetWorld(t, handleTaskEventsFinally(w1, chatId))
  /\ lastTab' = [op |-> "streamError", tab |-> t, chatId |-> chatId]
  /\ UNCHANGED creator
  /\ UNCHANGED gestures

AbortNext ==
  \/ TabConnect(Owner)
  \/ \E t \in Tabs : TabRead(t)
  \/ \E c \in Chats : TabSelect(Watcher, c)
  \/ TabSubmit(Owner)
  \/ \E c \in Chats : TabPersist(Owner, c)
  \/ \E c \in Chats : TabStartTask(Owner, c)
  \/ \E c \in Chats : TabStreamText(Owner, c)
  \/ \E a \in AgentIds : AgentFinish(a)
  \/ \E c \in Chats : TabStreamEnd(Owner, c)
  \/ \E c \in Chats : TabStreamError(Owner, c)

SpecAbort == CancelInit /\ [][AbortNext]_vars

====
